---- MODULE Spec2Model ----
(***************************************************************************)
(* judge-ai: the evaluation batch run (packages/api/src/routers/           *)
(* evaluations.ts): evaluationsRouter.run, buildEvaluationTasks,           *)
(* runWithConcurrencyLimit, runSingleEvaluation, processEvaluationResults. *)
(*                                                                         *)
(* The server is one single-threaded event loop: the code between two      *)
(* awaits runs atomically.  Each action below is one such segment, from the *)
(* resumption of an await to the next await.                               *)
(***************************************************************************)
EXTENDS Integers, Sequences, FiniteSets, TLC

(***************************************************************************)
(* Bounds of the model.                                                    *)
(***************************************************************************)
\* most assignment rows in the database
MaxAssignments == 2
\* most question rows in the database
MaxQuestions == 3
\* largest pool limit explored by the scaled run (SpecPool)
MaxLimit == 2

(***************************************************************************)
(* Program constants.                                                      *)
(***************************************************************************)
CONCURRENCY_LIMIT == 10
MIN_REASONING_LENGTH == 10
MAX_REASONING_LENGTH == 500

AVAILABLE_MODELS ==
  { "google/gemini-2.5-flash-preview-09-2025", "anthropic/claude-haiku-4.5",
    "openai/gpt-5-mini", "xai/grok-4-fast-reasoning" }

\* z.enum(["pass", "fail", "inconclusive"])
Verdicts == {"pass", "fail", "inconclusive"}

(***************************************************************************)
(* Values.                                                                 *)
(***************************************************************************)
Users == {"u1", "u2"}
\* context.session is undefined
NoSession == "no-session"
Queues == {"qA", "qB"}
\* SQL NULL / JavaScript null in a text column
Null == "<null>"
\* a left join that found no judge row
NullJudge == [id |-> Null, userId |-> Null, modelName |-> Null, isActive |-> FALSE]

Min(a, b) == IF a <= b THEN a ELSE b

\* the sequences that list every element of S once: the orders in which a
\* SELECT without ORDER BY may return the rows S
Orders(S) ==
  { s \in [1..Cardinality(S) -> S] : \A i, j \in 1..Cardinality(S) : s[i] = s[j] => i = j }

(***************************************************************************)
(* Database rows the runs start from.  judges rows exist with any model    *)
(* name (judges.create accepts any string) and any owner; assignment rows  *)
(* reference any existing judge (assign does not check the judge's owner). *)
(***************************************************************************)
JudgeRows ==
  { [id |-> "j1", userId |-> "u1", modelName |-> "openai/gpt-5-mini", isActive |-> TRUE],
    [id |-> "j2", userId |-> "u1", modelName |-> "anthropic/claude-haiku-4.5", isActive |-> FALSE],
    [id |-> "j3", userId |-> "u2", modelName |-> "openai/gpt-5-mini", isActive |-> TRUE],
    [id |-> "j4", userId |-> "u1", modelName |-> "openai/gpt-4o", isActive |-> TRUE] }

SubmissionRows ==
  { [id |-> "s1", userId |-> "u1", queueId |-> "qA"],
    [id |-> "s2", userId |-> "u1", queueId |-> "qA"],
    [id |-> "s3", userId |-> "u2", queueId |-> "qA"],
    [id |-> "s4", userId |-> "u1", queueId |-> "qB"] }

\* a question row as upload stores it: id is `${questionId}_${submission.id}`,
\* kept here as the pair; queueId is the submission's
QuestionRow(t, s) ==
  [id |-> <<t, s.id>>, submissionId |-> s.id, queueId |-> s.queueId, questionId |-> t]

QuestionPool ==
  { QuestionRow("t1", s) : s \in SubmissionRows } \cup
  { QuestionRow("t2", s) : s \in {x \in SubmissionRows : x.id = "s1"} }

\* a row of queue_judge_assignments; id is the nanoid() of its insert
AssignmentRow(id, userId, q, t, judgeId) ==
  [id |-> id, userId |-> userId, queueId |-> q, questionId |-> t, judgeId |-> judgeId]

AssignmentPool ==
  { AssignmentRow(<<"seed", 1>>, "u1", "qA", "t1", "j1"),
    AssignmentRow(<<"seed", 2>>, "u1", "qA", "t2", "j2"),
    AssignmentRow(<<"seed", 3>>, "u1", "qA", "t3", "j1"),
    AssignmentRow(<<"seed", 4>>, "u1", "qA", "t1", "j4"),
    AssignmentRow(<<"seed", 5>>, "u1", "qA", "t1", "j3"),
    AssignmentRow(<<"seed", 6>>, "u2", "qA", "t1", "j3"),
    AssignmentRow(<<"seed", 7>>, "u1", "qB", "t1", "j1") }

\* UNIQUE(queue_id, question_id, judge_id)
UniqueAssignment(A) ==
  \A a, b \in A :
    (a.queueId = b.queueId /\ a.questionId = b.questionId /\ a.judgeId = b.judgeId) => a = b

VARIABLES
  judges,        \* table judges
  submissions,   \* table submissions
  questions,     \* table questions
  assignments,   \* table queue_judge_assignments
  evaluations,   \* table evaluations
  pc,            \* position of the run handler
  session,       \* context.session?.user.id of the call
  queueId,       \* input.queueId of the call
  callId,        \* which call of run this is (1 for the first)
  loaded,        \* the assignment rows fetchQueueAssignments returned to this call
  fetched,       \* run: const assignments (rows joined to their judge), until
                 \* the tasks are built from it: it is not read afterwards
  tasks,         \* run: const tasks
  limit,         \* runWithConcurrencyLimit: limit
  nextIndex,     \* runWithConcurrencyLimit: let nextIndex (0-based)
  workers,       \* runWithConcurrencyLimit: the worker() invocations
  results,       \* runWithConcurrencyLimit: const results
  response,      \* what the call returned or threw
  outstanding,   \* provider side: generateObject calls started and not settled
  started,       \* provider side: per task index, generateObject calls issued
  callLog,       \* provider side: per task index, how its call settled
  caught,        \* per task index, entries into the catch block of runSingleEvaluation
  insertLog,     \* database side: per task index, the inserts sent and how each settled
  calls,         \* calls of run made so far
  history,       \* the calls of run that ended: caller, queue and what they returned
  other,         \* a second call of run in progress: its frame, as `Call` below
  assignCall,    \* the call of assign / assignJudgeToQueue in progress: its frame
  ops,           \* calls made so far to the routers other than run
  lastReply,     \* what the last call that ended, other than run, returned or threw
  toggleCall,    \* the call of judges.toggleActive in progress: its frame
  otherAssign,   \* a second call of assign / assignJudgeToQueue in progress: its frame
  otherToggle,   \* a second call of judges.toggleActive in progress: its frame
  uploadCall,    \* the call of submissions.upload in progress: its frame
  page           \* the queue page open in the browser: its React state and query cache

dbVars == <<judges, submissions, questions, assignments>>
callVars == <<pc, session, queueId, callId, fetched, loaded, tasks, limit>>
poolVars == <<nextIndex, workers, results, outstanding, started, callLog, caught,
             insertLog>>
moreVars == <<otherAssign, otherToggle, uploadCall, page>>
sideVars == <<history, other, assignCall, ops, lastReply, toggleCall, moreVars>>
vars == <<dbVars, evaluations, callVars, poolVars, response, calls, sideVars>>

NoResponse == [kind |-> "none"]
\* a slot of `new Array(tasks.length)` not yet written
Hole == [status |-> "empty"]

\* what is remembered of the call of assign / assignJudgeToQueue made before
\* the current one: the procedure, its caller and input, its position in the
\* sequence of calls and how it ended
NoEarlierAssign ==
  [op |-> "none", userId |-> NoSession, queueId |-> "qA", input |-> <<>>,
   number |-> 0, pc |-> "idle"]

\* the frame of a call of assign / assignJudgeToQueue: the caller, the queue,
\* the (question id, judge id) pairs its loop has still to go through, and
\* `inserted`; with the procedure called, the pairs of its input, the
\* position of the call in the sequence of calls, and the call before it
IdleAssign ==
  [pc |-> "idle", userId |-> NoSession, queueId |-> "qA", pairs |-> <<>>,
   inserted |-> <<>>, message |-> Null,
   op |-> "none", input |-> <<>>, number |-> 0, before |-> NoEarlierAssign]

\* no call has ended yet
NoReply ==
  [op |-> "none", caller |-> NoSession, kind |-> "none", message |-> Null,
   count |-> 0, rows |-> {}, owner |-> Null]

\* the frame of a call of judges.toggleActive between its select and its
\* update, with the ids of the judges whose toggle it completed before
IdleToggle ==
  [pc |-> "idle", userId |-> NoSession, id |-> Null, isActive |-> FALSE, completed |-> <<>>]

\* the frame of a call of submissions.upload: the caller, the submissions of
\* the input its loop has still to go through, `insertedSubmissions` and
\* `duplicateIds`
IdleUpload ==
  [pc |-> "idle", userId |-> NoSession, batch |-> <<>>, input |-> <<>>,
   insertedSubmissions |-> <<>>, duplicateIds |-> <<>>, message |-> Null, number |-> 0]

\* the queries of the queue page that its rendering depends on
QueryNames == {"questions", "allQuestions", "assignments", "evaluations", "judges"}
\* query.data is undefined: nothing has been fetched yet
NoData == -1

\* no queue page is open
ClosedPage ==
  [open |-> FALSE, userId |-> NoSession, queueId |-> Null, isRunning |-> FALSE,
   mutation |-> "idle", fetching |-> {}, data |-> [n \in QueryNames |-> NoData]]

\* the frame of a call of run: the handler's position, inputs and locals, the
\* pool it started, and what is known of its provider calls and inserts
Call ==
  [pc |-> pc, session |-> session, queueId |-> queueId, callId |-> callId,
   fetched |-> fetched, loaded |-> loaded, tasks |-> tasks, limit |-> limit,
   nextIndex |-> nextIndex, workers |-> workers, results |-> results,
   outstanding |-> outstanding, started |-> started, callLog |-> callLog,
   caught |-> caught, insertLog |-> insertLog, response |-> response]

\* a call that has not been made yet
IdleCall ==
  [pc |-> "idle", session |-> NoSession, queueId |-> "qA", callId |-> 0,
   fetched |-> <<>>, loaded |-> {}, tasks |-> <<>>, limit |-> 0,
   nextIndex |-> 0, workers |-> <<>>, results |-> <<>>,
   outstanding |-> 0, started |-> <<>>, callLog |-> <<>>,
   caught |-> <<>>, insertLog |-> <<>>, response |-> NoResponse]

\* mutant: the results array is module state, shared by every call
SetCall_SharedResults(c) ==
  /\ pc' = c.pc
  /\ session' = c.session
  /\ queueId' = c.queueId
  /\ callId' = c.callId
  /\ fetched' = c.fetched
  /\ loaded' = c.loaded
  /\ tasks' = c.tasks
  /\ limit' = c.limit
  /\ nextIndex' = c.nextIndex
  /\ workers' = c.workers
  /\ results' = results
  /\ outstanding' = c.outstanding
  /\ started' = c.started
  /\ callLog' = c.callLog
  /\ caught' = c.caught
  /\ insertLog' = c.insertLog
  /\ response' = c.response

\* the variables of the handler have the values of frame c
SetCallNow(c) ==
  /\ pc = c.pc
  /\ session = c.session
  /\ queueId = c.queueId
  /\ callId = c.callId
  /\ fetched = c.fetched
  /\ loaded = c.loaded
  /\ tasks = c.tasks
  /\ limit = c.limit
  /\ nextIndex = c.nextIndex
  /\ workers = c.workers
  /\ results = c.results
  /\ outstanding = c.outstanding
  /\ started = c.started
  /\ callLog = c.callLog
  /\ caught = c.caught
  /\ insertLog = c.insertLog
  /\ response = c.response

\* the variables of the handler take the values of frame c
SetCall(c) ==
  /\ pc' = c.pc
  /\ session' = c.session
  /\ queueId' = c.queueId
  /\ callId' = c.callId
  /\ fetched' = c.fetched
  /\ loaded' = c.loaded
  /\ tasks' = c.tasks
  /\ limit' = c.limit
  /\ nextIndex' = c.nextIndex
  /\ workers' = c.workers
  /\ results' = c.results
  /\ outstanding' = c.outstanding
  /\ started' = c.started
  /\ callLog' = c.callLog
  /\ caught' = c.caught
  /\ insertLog' = c.insertLog
  /\ response' = c.response

Init ==
  /\ judges = JudgeRows
  /\ submissions = SubmissionRows
  /\ questions \in { Q \in SUBSET QuestionPool : Cardinality(Q) <= MaxQuestions }
  /\ assignments \in { A \in SUBSET AssignmentPool :
                         Cardinality(A) <= MaxAssignments /\ UniqueAssignment(A) }
  /\ evaluations = {}
  /\ pc = "idle"
  /\ session = NoSession
  /\ queueId = "qA"
  /\ callId = 0
  /\ fetched = <<>>
  /\ loaded = {}
  /\ tasks = <<>>
  /\ limit = 0
  /\ nextIndex = 0
  /\ workers = <<>>
  /\ results = <<>>
  /\ response = NoResponse
  /\ outstanding = 0
  /\ started = <<>>
  /\ callLog = <<>>
  /\ caught = <<>>
  /\ insertLog = <<>>
  /\ calls = 0
  /\ history = <<>>
  /\ other = IdleCall
  /\ assignCall = IdleAssign
  /\ ops = 0
  /\ lastReply = NoReply
  /\ toggleCall = IdleToggle
  /\ otherAssign = IdleAssign
  /\ otherToggle = IdleToggle
  /\ uploadCall = IdleUpload
  /\ page = ClosedPage


\* the databases of Init that hold rows of one user in one queue only, the
\* assignments naming that user's judges of an available model: the task
\* lists of that user's run have every length the pools allow
InitPool ==
  /\ Init
  /\ \A a \in assignments :
       a.userId = "u1" /\ a.queueId = "qA" /\ a.judgeId \in {"j1", "j2"}
  /\ \A x \in questions :
       /\ x.queueId = "qA"
       /\ \E s \in SubmissionRows : s.id = x.submissionId /\ s.userId = "u1"

(***************************************************************************)
(* The provider boundary: generateObject({model, system, prompt, schema}). *)
(***************************************************************************)
\* length of a reasoning text the model may produce
TextLength(text) ==
  CASE text = "reasoning-9" -> 9
    [] text = "reasoning-10" -> 10
    [] text = "reasoning-500" -> 500
    [] text = "reasoning-501" -> 501

\* a thrown JavaScript value: an Error with a message, or something else
ThrownError(message) == [isError |-> TRUE, message |-> message]
ThrownOther == [isError |-> FALSE, message |-> Null]
NoError == [isError |-> FALSE, message |-> "<no-error>"]

NoObject == [verdict |-> Null, reasoning |-> Null, totalTokens |-> 0, latencyMs |-> 0]

\* what the provider may do with one call: answer with an object, or fail.
\* latencyMs is Date.now() - startTime as measured around the call.
ProviderReplies ==
  { [threw |-> NoError, verdict |-> "pass", reasoning |-> "reasoning-10",
     totalTokens |-> 7, latencyMs |-> 5],
    [threw |-> NoError, verdict |-> "fail", reasoning |-> "reasoning-500",
     totalTokens |-> 7, latencyMs |-> 5],
    [threw |-> NoError, verdict |-> "inconclusive", reasoning |-> "reasoning-500",
     totalTokens |-> 0, latencyMs |-> 0],
    [threw |-> NoError, verdict |-> "maybe", reasoning |-> "reasoning-10",
     totalTokens |-> 7, latencyMs |-> 5],
    [threw |-> NoError, verdict |-> "pass", reasoning |-> "reasoning-9",
     totalTokens |-> 7, latencyMs |-> 5],
    [threw |-> NoError, verdict |-> "fail", reasoning |-> "reasoning-501",
     totalTokens |-> 7, latencyMs |-> 5],
    [threw |-> ThrownError("provider request failed"), verdict |-> Null, reasoning |-> Null,
     totalTokens |-> 0, latencyMs |-> 0],
    [threw |-> ThrownOther, verdict |-> Null, reasoning |-> Null,
     totalTokens |-> 0, latencyMs |-> 0] }

\* mutant: the verdict is any string (z.string() for z.enum)
EvaluationSchema_AnyVerdict(object) ==
  /\ TextLength(object.reasoning) >= MIN_REASONING_LENGTH
  /\ TextLength(object.reasoning) <= MAX_REASONING_LENGTH

\* evaluationSchema
EvaluationSchema(object) ==
  /\ object.verdict \in Verdicts
  /\ TextLength(object.reasoning) >= MIN_REASONING_LENGTH
  /\ TextLength(object.reasoning) <= MAX_REASONING_LENGTH

\* generateObject: the provider's answer, validated against the schema; an
\* answer that does not match the schema is thrown as an error
GenerateObject(reply) ==
  IF reply.threw # NoError
  THEN [ok |-> FALSE, error |-> reply.threw, object |-> NoObject]
  ELSE IF EvaluationSchema(reply)
  THEN [ok |-> TRUE, error |-> NoError,
        object |-> [verdict |-> reply.verdict, reasoning |-> reply.reasoning,
                    totalTokens |-> reply.totalTokens, latencyMs |-> reply.latencyMs]]
  ELSE [ok |-> FALSE, error |-> ThrownError("response did not match schema"),
        object |-> NoObject]

\* an insert that the database rejects
InsertError == ThrownError("insert failed")

\* how an insert into table evaluations settled: the row is there, or the
\* statement was rejected and no row is there
Stored(path) == [path |-> path, stored |-> TRUE]
Refused(path) == [path |-> path, stored |-> FALSE]

\* mutant: a thrown value that is no Error yields no text
ErrorText_MessageOnly(error) == error.message

\* error instanceof Error ? error.message : "Unknown error"
ErrorText(error) == IF error.isError THEN error.message ELSE "Unknown error"

(***************************************************************************)
(* Rows of table evaluations.                                              *)
(***************************************************************************)
\* mutant: the id is derived from the task alone, the same in every call
NanoId_PerTask(index, path) == <<0, index, path>>

\* nanoid(): a fresh id for every insert: no two inserts of any call share one
NanoId(index, path) == <<callId, index, path>>

\* `evaluation` undefined
NullRow ==
  [id |-> <<>>, questionId |-> <<>>, judgeId |-> Null, verdict |-> Null,
   reasoning |-> Null, tokensUsed |-> 0, latencyMs |-> 0, error |-> Null]

\* mutant: the question row of an evaluation row need not exist
References_JudgeOnly(row) == \E j \in judges : j.id = row.judgeId

\* the foreign keys of an evaluation row: question_id references questions,
\* judge_id references judges; an insert whose references are gone is rejected
References(row) ==
  /\ \E x \in questions : x.id = row.questionId
  /\ \E j \in judges : j.id = row.judgeId

\* mutant: the success path stores an empty error text instead of null
VerdictRow_EmptyError(index, task, object) ==
  [id |-> NanoId(index, "verdict"), questionId |-> task.question.id,
   judgeId |-> task.judge.id, verdict |-> object.verdict,
   reasoning |-> object.reasoning, tokensUsed |-> object.totalTokens,
   latencyMs |-> object.latencyMs, error |-> ""]

\* the values of the insert on the success path of runSingleEvaluation
VerdictRow(index, task, object) ==
  [id |-> NanoId(index, "verdict"), questionId |-> task.question.id,
   judgeId |-> task.judge.id, verdict |-> object.verdict,
   reasoning |-> object.reasoning, tokensUsed |-> object.totalTokens,
   latencyMs |-> object.latencyMs, error |-> Null]

\* mutant: the catch block stores the measured metrics and a fixed reasoning
FallbackRow_KeepsMetrics(index, task, error) ==
  [id |-> NanoId(index, "fallback"), questionId |-> task.question.id,
   judgeId |-> task.judge.id, verdict |-> "inconclusive",
   reasoning |-> "Evaluation failed", tokensUsed |-> 0,
   latencyMs |-> 1, error |-> ErrorText(error)]

\* the values of the insert in the catch block of runSingleEvaluation
FallbackRow(index, task, error) ==
  [id |-> NanoId(index, "fallback"), questionId |-> task.question.id,
   judgeId |-> task.judge.id, verdict |-> "inconclusive",
   reasoning |-> ErrorText(error), tokensUsed |-> 0,
   latencyMs |-> 0, error |-> ErrorText(error)]

(***************************************************************************)
(* The queries and the task list of run.                                   *)
(***************************************************************************)
JudgeOf(judgeId) ==
  IF \E j \in judges : j.id = judgeId
  THEN CHOOSE j \in judges : j.id = judgeId
  ELSE NullJudge

\* mutant: the assignments of every user of the queue are fetched
FetchQueueAssignments_AnyUser(q, userId) ==
  { [assignment |-> a, judge |-> JudgeOf(a.judgeId)] :
      a \in { x \in assignments : x.queueId = q } }

\* queue_judge_assignments LEFT JOIN judges WHERE queueId = .. AND userId = ..
FetchQueueAssignments(q, userId) ==
  { [assignment |-> a, judge |-> JudgeOf(a.judgeId)] :
      a \in { x \in assignments : x.queueId = q /\ x.userId = userId } }

\* mutant: the question rows of every user of the queue are fetched
FetchQueueQuestions_AnyUser(q, userId) == { x \in questions : x.queueId = q }

\* questions LEFT JOIN submissions WHERE questions.queueId = .. AND submissions.userId = ..
FetchQueueQuestions(q, userId) ==
  { x \in questions :
      /\ x.queueId = q
      /\ \E s \in submissions : s.id = x.submissionId /\ s.userId = userId }

\* mutant: the judge's owner is not compared with the caller
JudgeEligible_AnyOwner(judge, userId) ==
  /\ judge # NullJudge
  /\ judge.modelName \in AVAILABLE_MODELS

\* the three `continue` tests of buildEvaluationTasks
JudgeEligible(judge, userId) ==
  /\ judge # NullJudge
  /\ judge.userId = userId
  /\ judge.modelName \in AVAILABLE_MODELS

\* mutant: only the first matching question row is taken (find, not filter)
MatchingQuestions_First(queueQuestions, assignment) ==
  LET all == SelectSeq(queueQuestions, LAMBDA x : x.questionId = assignment.questionId)
  IN IF all = <<>> THEN <<>> ELSE <<Head(all)>>

\* queueQuestions.filter((q) => q.question.questionId === assignment.questionId)
MatchingQuestions(queueQuestions, assignment) ==
  SelectSeq(queueQuestions, LAMBDA x : x.questionId = assignment.questionId)

RECURSIVE TasksFor(_, _)
TasksFor(matching, judge) ==
  IF matching = <<>> THEN <<>>
  ELSE <<[question |-> Head(matching), judge |-> judge]>> \o TasksFor(Tail(matching), judge)

RECURSIVE BuildEvaluationTasks(_, _, _)
BuildEvaluationTasks(rows, queueQuestions, userId) ==
  IF rows = <<>> THEN <<>>
  ELSE (IF JudgeEligible(Head(rows).judge, userId)
        THEN TasksFor(MatchingQuestions(queueQuestions, Head(rows).assignment),
                      Head(rows).judge)
        ELSE <<>>)
       \o BuildEvaluationTasks(Tail(rows), queueQuestions, userId)

(***************************************************************************)
(* runWithConcurrencyLimit.  The pool state a worker segment works on is   *)
(* the record [nextIndex, workers, outstanding, started].                  *)
(***************************************************************************)
NewWorker == [pc |-> "new", current |-> 0, object |-> NoObject, error |-> NoError]

\* mutant: one worker per task (Promise.all over the whole list)
WorkerCount_Unbounded(lim, taskList) == Len(taskList)

\* const workerCount = Math.min(limit, tasks.length)
WorkerCount(lim, taskList) == Min(lim, Len(taskList))

\* mutant: the cursor is read and used but not advanced
WorkerLoop_NoIncrement(pool, w, taskList) ==
  LET current == pool.nextIndex IN
  IF current >= Len(taskList)
  THEN [pool EXCEPT !.workers[w] = [pc |-> "done", current |-> current,
                                    object |-> NoObject, error |-> NoError]]
  ELSE [pool EXCEPT !.workers[w] = [pc |-> "call", current |-> current,
                                    object |-> NoObject, error |-> NoError],
                    !.outstanding = @ + 1,
                    !.started[current + 1] = @ + 1]

\* mutant: no loop, a worker runs the one task it claims at its start
WorkerLoop_SingleTask(pool, w, taskList) ==
  LET current == pool.nextIndex IN
  IF current >= Len(taskList) \/ pool.workers[w].pc # "new"
  THEN [pool EXCEPT !.workers[w] = [pc |-> "done", current |-> current,
                                    object |-> NoObject, error |-> NoError]]
  ELSE [pool EXCEPT !.nextIndex = current + 1,
                    !.workers[w] = [pc |-> "call", current |-> current,
                                    object |-> NoObject, error |-> NoError],
                    !.outstanding = @ + 1,
                    !.started[current + 1] = @ + 1]

\* One pass of worker w through the head of its loop, up to its next await:
\* read the cursor, leave if the list is exhausted, else advance the cursor and
\* call the task, which runs up to `await generateObject(...)`.
WorkerLoop(pool, w, taskList) ==
  LET current == pool.nextIndex IN
  IF current >= Len(taskList)
  THEN [pool EXCEPT !.workers[w] = [pc |-> "done", current |-> current,
                                    object |-> NoObject, error |-> NoError]]
  ELSE [pool EXCEPT !.nextIndex = current + 1,
                    !.workers[w] = [pc |-> "call", current |-> current,
                                    object |-> NoObject, error |-> NoError],
                    !.outstanding = @ + 1,
                    !.started[current + 1] = @ + 1]

\* Array.from({ length: workerCount }, () => worker()): the workers start one
\* after the other, each running to its first await
RECURSIVE StartWorkers(_, _, _)
StartWorkers(pool, w, taskList) ==
  IF w > Len(pool.workers) THEN pool
  ELSE StartWorkers(WorkerLoop(pool, w, taskList), w + 1, taskList)

Pool == [nextIndex |-> nextIndex, workers |-> workers,
         outstanding |-> outstanding, started |-> started]

SetPool(pool) ==
  /\ nextIndex' = pool.nextIndex
  /\ workers' = pool.workers
  /\ outstanding' = pool.outstanding
  /\ started' = pool.started

Fulfilled(success, evaluation) ==
  [status |-> "fulfilled", success |-> success, evaluation |-> evaluation, reason |-> NoError]
Rejected(reason) ==
  [status |-> "rejected", success |-> FALSE, evaluation |-> NullRow, reason |-> reason]
\* a rejection of task() that nothing in worker() catches
Uncaught(reason) ==
  [status |-> "uncaught", success |-> FALSE, evaluation |-> NullRow, reason |-> reason]

\* mutant: worker() awaits the task outside any try/catch
WorkerCatch_Missing(reason) == Uncaught(reason)

\* worker(): try { ... await task() ... } catch (reason) { results[current] = rejected }
WorkerCatch(reason) == Rejected(reason)

\* mutant: a fulfilled task that reports success = false is not counted
RECURSIVE ProcessEvaluationResults_DropsSoftFailure(_)
ProcessEvaluationResults_DropsSoftFailure(rs) ==
  IF rs = <<>>
  THEN [evaluationResults |-> <<>>, completedCount |-> 0, failedCount |-> 0]
  ELSE LET rest == ProcessEvaluationResults_DropsSoftFailure(Tail(rs))
           result == Head(rs)
       IN IF result.status = "fulfilled"
          THEN IF result.success /\ result.evaluation # NullRow
               THEN [evaluationResults |-> <<result.evaluation>> \o rest.evaluationResults,
                     completedCount |-> rest.completedCount + 1,
                     failedCount |-> rest.failedCount]
               ELSE rest
          ELSE [rest EXCEPT !.failedCount = @ + 1]

\* mutant: only fulfilled results are looked at; a rejected one is not counted
RECURSIVE ProcessEvaluationResults_SkipsRejected(_)
ProcessEvaluationResults_SkipsRejected(rs) ==
  IF rs = <<>>
  THEN [evaluationResults |-> <<>>, completedCount |-> 0, failedCount |-> 0]
  ELSE LET rest == ProcessEvaluationResults_SkipsRejected(Tail(rs))
           result == Head(rs)
       IN IF result.status # "fulfilled" THEN rest
          ELSE IF result.success /\ result.evaluation # NullRow
          THEN [evaluationResults |-> <<result.evaluation>> \o rest.evaluationResults,
                completedCount |-> rest.completedCount + 1,
                failedCount |-> rest.failedCount]
          ELSE [rest EXCEPT !.failedCount = @ + 1]

\* processEvaluationResults
RECURSIVE ProcessEvaluationResults(_)
ProcessEvaluationResults(rs) ==
  IF rs = <<>>
  THEN [evaluationResults |-> <<>>, completedCount |-> 0, failedCount |-> 0]
  ELSE LET rest == ProcessEvaluationResults(Tail(rs))
           result == Head(rs)
       IN IF result.status = "fulfilled" /\ result.success /\ result.evaluation # NullRow
          THEN [evaluationResults |-> <<result.evaluation>> \o rest.evaluationResults,
                completedCount |-> rest.completedCount + 1,
                failedCount |-> rest.failedCount]
          ELSE [rest EXCEPT !.failedCount = @ + 1]

(***************************************************************************)
(* evaluationsRouter.run                                                   *)
(***************************************************************************)
Fail(message) ==
  /\ pc' = "failed"
  /\ response' = [kind |-> "error", message |-> message, planned |-> 0,
                  completed |-> 0, failed |-> 0, evaluations |-> <<>>]

\* the handler up to its first await: the session check, then the query for
\* the assignments is sent; lim is the limit the pool will be given
RunWith(userId, q, lim) ==
  /\ pc = "idle"
  /\ session' = userId
  /\ queueId' = q
  /\ limit' = lim
  /\ calls' = calls + 1
  /\ callId' = calls + 1
  /\ IF userId = NoSession
     THEN Fail("User not authenticated")
     ELSE pc' = "fetchAssignments" /\ UNCHANGED response
  /\ UNCHANGED <<dbVars, evaluations, fetched, loaded, tasks, poolVars, sideVars>>

\* run as the router runs it: const CONCURRENCY_LIMIT = 10
Run(userId, q) == RunWith(userId, q, CONCURRENCY_LIMIT)

\* run with the pool's limit scaled down, so that task lists longer than the
\* pool are within reach of the bounds
RunScaled(userId, q, lim) == RunWith(userId, q, lim)

\* fetchQueueAssignments resolves; the query for the questions is sent
AssignmentsFetched ==
  /\ pc = "fetchAssignments"
  /\ \E rows \in Orders(FetchQueueAssignments(queueId, session)) :
       /\ loaded' = { rows[i].assignment : i \in DOMAIN rows }
       /\ IF Len(rows) = 0
          THEN Fail("No judge assignments found for this queue") /\ UNCHANGED fetched
          ELSE fetched' = rows /\ pc' = "fetchQuestions" /\ UNCHANGED response
  /\ UNCHANGED <<dbVars, evaluations, session, queueId, callId, tasks, limit, poolVars,
                 calls, sideVars>>

\* mutant: the assignments are fetched again when the tasks are built
QuestionsFetched_Refetch ==
  /\ pc = "fetchQuestions"
  /\ \E queueQuestions \in Orders(FetchQueueQuestions(queueId, session)),
        again \in Orders(FetchQueueAssignments(queueId, session)) :
       IF Len(queueQuestions) = 0
       THEN /\ Fail("No questions found for this queue")
            /\ UNCHANGED <<fetched, tasks, poolVars>>
       ELSE LET taskList == BuildEvaluationTasks(again, queueQuestions, session)
                count == WorkerCount(limit, taskList)
            IN /\ tasks' = taskList
               /\ fetched' = <<>>
               /\ results' = [i \in 1..Len(taskList) |-> Hole]
               /\ SetPool(StartWorkers(
                    [nextIndex |-> 0,
                     workers |-> [w \in 1..count |-> NewWorker],
                     outstanding |-> outstanding,
                     started |-> [i \in 1..Len(taskList) |-> 0]],
                    1, taskList))
               /\ callLog' = [i \in 1..Len(taskList) |-> "pending"]
               /\ caught' = [i \in 1..Len(taskList) |-> 0]
               /\ insertLog' = [i \in 1..Len(taskList) |-> <<>>]
               /\ pc' = "running"
               /\ UNCHANGED response
  /\ UNCHANGED <<dbVars, evaluations, session, queueId, callId, loaded, limit, calls, sideVars>>

\* fetchQueueQuestions resolves; the tasks are built and the workers started
QuestionsFetched ==
  /\ pc = "fetchQuestions"
  /\ \E queueQuestions \in Orders(FetchQueueQuestions(queueId, session)) :
       IF Len(queueQuestions) = 0
       THEN /\ Fail("No questions found for this queue")
            /\ UNCHANGED <<fetched, tasks, poolVars>>
       ELSE LET taskList == BuildEvaluationTasks(fetched, queueQuestions, session)
                count == WorkerCount(limit, taskList)
            IN /\ tasks' = taskList
               /\ fetched' = <<>>
               /\ results' = [i \in 1..Len(taskList) |-> Hole]
               /\ SetPool(StartWorkers(
                    [nextIndex |-> 0,
                     workers |-> [w \in 1..count |-> NewWorker],
                     outstanding |-> outstanding,
                     started |-> [i \in 1..Len(taskList) |-> 0]],
                    1, taskList))
               /\ callLog' = [i \in 1..Len(taskList) |-> "pending"]
               /\ caught' = [i \in 1..Len(taskList) |-> 0]
               /\ insertLog' = [i \in 1..Len(taskList) |-> <<>>]
               /\ pc' = "running"
               /\ UNCHANGED response
  /\ UNCHANGED <<dbVars, evaluations, session, queueId, callId, loaded, limit, calls, sideVars>>

\* generateObject of worker w's task resolves or rejects; the next insert is sent
CallSettles(w) ==
  /\ pc = "running"
  /\ w \in DOMAIN workers
  /\ workers[w].pc = "call"
  /\ \E reply \in ProviderReplies :
       LET r == GenerateObject(reply) IN
       /\ workers' = [workers EXCEPT ![w] =
                        IF r.ok THEN [@ EXCEPT !.pc = "insert", !.object = r.object]
                        ELSE [@ EXCEPT !.pc = "fallback", !.error = r.error]]
       /\ callLog' = [callLog EXCEPT ![workers[w].current + 1] =
                        IF r.ok THEN "resolved" ELSE "rejected"]
       /\ caught' = [caught EXCEPT ![workers[w].current + 1] =
                       IF r.ok THEN @ ELSE @ + 1]
  /\ outstanding' = outstanding - 1
  /\ UNCHANGED <<dbVars, evaluations, callVars, nextIndex, results, started, response,
                 insertLog, calls, sideVars>>

\* the insert of the verdict row resolves (the row is stored) or rejects
InsertSettles(w) ==
  /\ pc = "running"
  /\ w \in DOMAIN workers
  /\ workers[w].pc = "insert"
  /\ LET current == workers[w].current
         row == VerdictRow(current, tasks[current + 1], workers[w].object)
     IN \/ /\ References(row)
           /\ evaluations' = evaluations \cup {row}
           /\ insertLog' = [insertLog EXCEPT ![current + 1] = Append(@, Stored("verdict"))]
           /\ results' = [results EXCEPT ![current + 1] = Fulfilled(TRUE, row)]
           /\ SetPool(WorkerLoop(Pool, w, tasks))
           /\ UNCHANGED caught
        \/ /\ workers' = [workers EXCEPT ![w].pc = "fallback", ![w].error = InsertError]
           /\ insertLog' = [insertLog EXCEPT ![current + 1] = Append(@, Refused("verdict"))]
           /\ caught' = [caught EXCEPT ![current + 1] = @ + 1]
           /\ UNCHANGED <<evaluations, results, nextIndex, outstanding, started>>
  /\ UNCHANGED <<dbVars, callVars, response, callLog, calls, sideVars>>

\* the insert of the catch block resolves (the row is stored) or rejects; a
\* rejection leaves runSingleEvaluation and is caught by the worker
FallbackSettles(w) ==
  /\ pc = "running"
  /\ w \in DOMAIN workers
  /\ workers[w].pc = "fallback"
  /\ LET current == workers[w].current
         row == FallbackRow(current, tasks[current + 1], workers[w].error)
     IN \/ /\ References(row)
           /\ evaluations' = evaluations \cup {row}
           /\ insertLog' = [insertLog EXCEPT ![current + 1] = Append(@, Stored("fallback"))]
           /\ results' = [results EXCEPT ![current + 1] = Fulfilled(FALSE, NullRow)]
           /\ SetPool(WorkerLoop(Pool, w, tasks))
           /\ UNCHANGED <<pc, response>>
        \/ /\ UNCHANGED evaluations
           /\ insertLog' = [insertLog EXCEPT ![current + 1] = Append(@, Refused("fallback"))]
           /\ LET settled == WorkerCatch(InsertError) IN
              IF settled.status = "rejected"
              THEN /\ results' = [results EXCEPT ![current + 1] = settled]
                   /\ SetPool(WorkerLoop(Pool, w, tasks))
                   /\ UNCHANGED <<pc, response>>
              ELSE \* worker() rejects, so Promise.all rejects and run throws
                   /\ Fail(ErrorText(settled.reason))
                   /\ UNCHANGED <<results, nextIndex, workers, outstanding, started>>
  /\ UNCHANGED <<dbVars, session, queueId, callId, fetched, loaded, tasks, limit,
                 callLog, caught, calls, sideVars>>

\* Promise.all of the workers resolves: the results are counted and returned
RunReturns ==
  /\ pc = "running"
  /\ \A w \in DOMAIN workers : workers[w].pc = "done"
  /\ LET counted == ProcessEvaluationResults(results) IN
     response' = [kind |-> "result", message |-> Null, planned |-> Len(tasks),
                  completed |-> counted.completedCount,
                  failed |-> counted.failedCount,
                  evaluations |-> counted.evaluationResults]
  /\ pc' = "returned"
  /\ UNCHANGED <<dbVars, evaluations, session, queueId, callId, fetched, loaded, tasks,
                 limit, poolVars, calls, sideVars>>

PoolNext ==
  \/ AssignmentsFetched
  \/ QuestionsFetched
  \/ \E w \in 1..CONCURRENCY_LIMIT : CallSettles(w)
  \/ \E w \in 1..CONCURRENCY_LIMIT : InsertSettles(w)
  \/ \E w \in 1..CONCURRENCY_LIMIT : FallbackSettles(w)
  \/ RunReturns

Next ==
  \/ \E userId \in Users \cup {NoSession}, q \in Queues : Run(userId, q)
  \/ PoolNext

NextScaled ==
  \/ \E userId \in Users \cup {NoSession}, q \in Queues, lim \in 1..MaxLimit :
       RunScaled(userId, q, lim)
  \/ PoolNext

\* the run handler as deployed
Spec == Init /\ [][Next]_vars

\* the run handler with the pool limit drawn from 1..MaxLimit, on the
\* databases of InitPool
SpecPool == InitPool /\ [][NextScaled]_vars

\* the scaled run, where every sent query, insert and provider call settles
\* and every continuation that is ready runs
FairSpecPool == SpecPool /\ WF_vars(PoolNext)

(***************************************************************************)
(* Further calls of run.                                                   *)
(***************************************************************************)
\* most calls of run made one after the other (SpecRepeat)
MaxRuns == 2

\* what a call that ended is remembered by
Ended(c) ==
  [session |-> c.session, queueId |-> c.queueId, kind |-> c.response.kind,
   planned |-> c.response.planned, failed |-> c.response.failed]

\* the response of the call has reached the caller and the handler's frame is
\* gone: the caller may call run again.  The caller goes on after a call
\* that failed fast or reported no failed pair; a run with failed pairs ends
\* the sequence.
CallEnds ==
  /\ pc \in {"returned", "failed"}
  /\ response.failed = 0
  /\ calls < MaxRuns
  /\ history' = Append(history, Ended(Call))
  /\ SetCall(IdleCall)
  /\ UNCHANGED <<dbVars, evaluations, calls, other, assignCall, ops, lastReply, toggleCall,
                 moreVars>>

\* the databases of Init with at most the first two assignments of u1 in qA
\* and the question rows of submission s1: lists of up to two tasks
InitRepeat ==
  /\ Init
  /\ \A a \in assignments : a.id \in {<<"seed", 1>>, <<"seed", 2>>}
  /\ \A x \in questions : x.submissionId = "s1"

NextRepeat ==
  \/ \E userId \in Users \cup {NoSession}, q \in Queues : Run(userId, q)
  \/ PoolNext
  \/ CallEnds

\* calls of run made one after the other, each as deployed
SpecRepeat == InitRepeat /\ [][NextRepeat]_vars

(***************************************************************************)
(* Two calls of run in progress at once.  The variables of the handler     *)
(* describe one of the two calls and `other` holds the frame of the second; *)
(* Switch exchanges them, so that the steps of the two calls interleave in  *)
(* every order.  Both calls work on the same tables.                       *)
(***************************************************************************)
Switch ==
  /\ other' = Call
  /\ SetCall(other)
  /\ UNCHANGED <<dbVars, evaluations, calls, history, assignCall, ops, lastReply, toggleCall,
                 moreVars>>

\* the databases of Init in which u1 and u2 each have at most one pair in qA
InitTwo ==
  /\ Init
  /\ \A a \in assignments : a.id \in {<<"seed", 1>>, <<"seed", 6>>}
  /\ \A x \in questions : x.questionId = "t1" /\ x.submissionId \in {"s1", "s3"}

NextTwo ==
  \/ \E userId \in Users \cup {NoSession}, q \in Queues : Run(userId, q)
  \/ PoolNext
  \/ Switch

\* two calls of run as deployed, in progress at once
SpecTwo == InitTwo /\ [][NextTwo]_vars

(***************************************************************************)
(* assignmentsRouter (packages/api/src/routers/assignments.ts).            *)
(***************************************************************************)
\* most calls made to the routers other than run
MaxOps == 2

\* what an insert into queue_judge_assignments is rejected with
UniqueViolation == "duplicate key value violates unique constraint"
ForeignKeyViolation == "insert or update violates foreign key constraint"

\* a call that returned, and a call that threw
Returned(op, caller, count, rows) ==
  [op |-> op, caller |-> caller, kind |-> "ok", message |-> Null,
   count |-> count, rows |-> rows, owner |-> Null]
Threw(op, caller, message) ==
  [op |-> op, caller |-> caller, kind |-> "error", message |-> message,
   count |-> 0, rows |-> {}, owner |-> Null]
\* the reply of a call that named a row by its id, with the owner that row
\* had when the call was made (Null if there was no such row)
Targeting(reply, owner) == [reply EXCEPT !.owner = owner]

\* the owner of the row with the id, per the tables
OwnerOfAssignment(id) ==
  IF \E a \in assignments : a.id = id
  THEN (CHOOSE a \in assignments : a.id = id).userId ELSE Null

\* the loop of assign / assignJudgeToQueue goes on to its next pair, or the
\* handler returns
NextPair(frame) ==
  [frame EXCEPT !.pairs = Tail(@),
                !.pc = IF Tail(frame.pairs) = <<>> THEN "returned" ELSE "check"]

\* what the next call remembers of the call with the frame
EarlierAssign(frame) ==
  [op |-> frame.op, userId |-> frame.userId, queueId |-> frame.queueId,
   input |-> frame.input, number |-> frame.number, pc |-> frame.pc]

\* assign and assignJudgeToQueue up to their first await: the session check,
\* then the query for the first pair is sent
AssignWith(op, userId, q, pairs) ==
  /\ assignCall.pc \in {"idle", "returned", "failed"}
  /\ ops < MaxOps
  /\ ops' = ops + 1
  /\ assignCall' =
       LET called == [op |-> op, input |-> pairs, number |-> ops + 1,
                      before |-> EarlierAssign(assignCall)]
       IN IF userId = NoSession
          THEN [pc |-> "failed", userId |-> userId, queueId |-> q, pairs |-> pairs,
                inserted |-> <<>>, message |-> "User not authenticated"] @@ called
          ELSE [pc |-> IF pairs = <<>> THEN "returned" ELSE "check",
                userId |-> userId, queueId |-> q, pairs |-> pairs,
                inserted |-> <<>>, message |-> Null] @@ called
  /\ UNCHANGED <<dbVars, evaluations, callVars, poolVars, response, calls,
                 history, other, lastReply, toggleCall, moreVars>>

\* assign({queueId, questionId, judgeIds}): one pair per judge id
Assign(userId, q, t, judgeIds) ==
  AssignWith("assign", userId, q, [k \in DOMAIN judgeIds |-> <<t, judgeIds[k]>>])

\* assignJudgeToQueue({queueId, judgeId, questionIds}): one pair per question id
AssignJudgeToQueue(userId, q, judgeId, questionIds) ==
  AssignWith("assignJudgeToQueue", userId, q,
             [k \in DOMAIN questionIds |-> <<questionIds[k], judgeId>>])

\* mutant: the insert is sent without a look at the rows held
ExistingAssignment_NoCheck(userId, q, pair) == {}

\* the select of the loop: the caller's rows with the tuple
ExistingAssignment(userId, q, pair) ==
  { a \in assignments :
      /\ a.queueId = q
      /\ a.questionId = pair[1]
      /\ a.judgeId = pair[2]
      /\ a.userId = userId }

\* the select resolves: the pair is skipped if the caller holds it, else the
\* insert is sent
AssignChecked ==
  /\ assignCall.pc = "check"
  /\ assignCall' =
       IF ExistingAssignment(assignCall.userId, assignCall.queueId,
                             Head(assignCall.pairs)) # {}
       THEN NextPair(assignCall)
       ELSE [assignCall EXCEPT !.pc = "insert"]
  /\ UNCHANGED <<dbVars, evaluations, callVars, poolVars, response, calls,
                 history, other, ops, lastReply, toggleCall, moreVars>>

\* the insert resolves with the stored row, or is rejected by a constraint of
\* the table, which the handler does not catch: it throws, the rows it
\* inserted before staying
AssignInserted ==
  /\ assignCall.pc = "insert"
  /\ LET pair == Head(assignCall.pairs)
         row == AssignmentRow(<<"new", assignCall.number, Len(assignCall.pairs)>>,
                              assignCall.userId,
                              assignCall.queueId, pair[1], pair[2])
     IN IF ~UniqueAssignment(assignments \cup {row})
        THEN /\ assignCall' = [assignCall EXCEPT !.pc = "failed",
                                                  !.message = UniqueViolation]
             /\ UNCHANGED assignments
        ELSE IF JudgeOf(pair[2]) = NullJudge
        THEN /\ assignCall' = [assignCall EXCEPT !.pc = "failed",
                                                  !.message = ForeignKeyViolation]
             /\ UNCHANGED assignments
        ELSE /\ assignments' = assignments \cup {row}
             /\ assignCall' = NextPair([assignCall EXCEPT !.inserted = Append(@, row)])
  /\ UNCHANGED <<judges, submissions, questions, evaluations, callVars, poolVars,
                 response, calls, history, other, ops, lastReply, toggleCall, moreVars>>

\* unassign({id}): delete ... where id = .. and userId = .. returning
Unassign(userId, id) ==
  /\ ops < MaxOps
  /\ ops' = ops + 1
  /\ IF userId = NoSession
     THEN lastReply' = Targeting(Threw("unassign", userId, "User not authenticated"),
                                 OwnerOfAssignment(id))
          /\ UNCHANGED assignments
     ELSE LET deleted == { a \in assignments : a.id = id /\ a.userId = userId } IN
          /\ assignments' = assignments \ deleted
          /\ lastReply' = Targeting(
               IF deleted = {}
               THEN Threw("unassign", userId, "Assignment not found")
               ELSE Returned("unassign", userId, Cardinality(deleted), deleted),
               OwnerOfAssignment(id))
  /\ UNCHANGED <<judges, submissions, questions, evaluations, callVars, poolVars,
                 response, calls, history, other, assignCall, toggleCall, moreVars>>

\* unassignJudgeFromQuestion({queueId, questionId, judgeId}): delete ...
\* where the tuple and userId = .. returning; it succeeds with the count
UnassignJudgeFromQuestion(userId, q, t, judgeId) ==
  /\ ops < MaxOps
  /\ ops' = ops + 1
  /\ IF userId = NoSession
     THEN lastReply' = Threw("unassignJudgeFromQuestion", userId, "User not authenticated")
          /\ UNCHANGED assignments
     ELSE LET deleted == ExistingAssignment(userId, q, <<t, judgeId>>) IN
          /\ assignments' = assignments \ deleted
          /\ lastReply' = Returned("unassignJudgeFromQuestion", userId,
                                   Cardinality(deleted), {})
  /\ UNCHANGED <<judges, submissions, questions, evaluations, callVars, poolVars,
                 response, calls, history, other, assignCall, toggleCall, moreVars>>

\* clearQueue({queueId}): delete ... where queueId = .. and userId = .. returning
ClearQueue(userId, q) ==
  /\ ops < MaxOps
  /\ ops' = ops + 1
  /\ IF userId = NoSession
     THEN lastReply' = Threw("clearQueue", userId, "User not authenticated")
          /\ UNCHANGED assignments
     ELSE LET deleted == { a \in assignments : a.queueId = q /\ a.userId = userId } IN
          /\ assignments' = assignments \ deleted
          /\ lastReply' = Returned("clearQueue", userId, Cardinality(deleted), deleted)
  /\ UNCHANGED <<judges, submissions, questions, evaluations, callVars, poolVars,
                 response, calls, history, other, assignCall, toggleCall, moreVars>>

\* the inputs of the calls explored
JudgeIdLists == { <<"j1">>, <<"j3", "j1">> }
QuestionIdLists == { <<"t2", "t1">> }
AssignmentIds == { <<"seed", 1>>, <<"seed", 6>>, <<"new", 1, 1>> }

AssignNext ==
  \/ \E userId \in Users \cup {NoSession}, judgeIds \in JudgeIdLists :
       Assign(userId, "qA", "t1", judgeIds)
  \/ \E userId \in Users \cup {NoSession}, questionIds \in QuestionIdLists :
       AssignJudgeToQueue(userId, "qA", "j1", questionIds)
  \/ AssignChecked
  \/ AssignInserted
  \/ \E userId \in Users \cup {NoSession}, id \in AssignmentIds : Unassign(userId, id)
  \/ \E userId \in Users \cup {NoSession} : ClearQueue(userId, "qA")
  \/ \E userId \in Users \cup {NoSession}, judgeId \in {"j1", "j3"} :
       UnassignJudgeFromQuestion(userId, "qA", "t1", judgeId)

\* the databases of Init with at most u1's assignment of j2 to t2 and u2's
\* of j3 to t1 in qA, and the question row of t2 in submission s1
InitAssign ==
  /\ Init
  /\ \A a \in assignments : a.id \in {<<"seed", 2>>, <<"seed", 6>>}
  /\ \A x \in questions : x.id = <<"t2", "s1">>

\* the databases of Init with at most two of: u1's assignment of its judge j1
\* to t1, u1's assignment of u2's judge j3 to t1, u2's assignment of j3 to t1
InitRouter ==
  /\ Init
  /\ \A a \in assignments : a.id \in {<<"seed", 1>>, <<"seed", 5>>, <<"seed", 6>>}
  /\ \A x \in questions : x.id = <<"t1", "s1">>

\* the calls of the assignments router alone, by every caller
SpecRouter == InitRouter /\ [][AssignNext]_vars

\* calls of either user that add an assignment of j1 to t2 in qA, remove one
\* assignment, or clear qA
NextAssign ==
  \/ \E userId \in Users \cup {NoSession}, q \in Queues : Run(userId, q)
  \/ PoolNext
  \/ \E userId \in Users : Assign(userId, "qA", "t2", <<"j1">>)
  \/ AssignChecked
  \/ AssignInserted
  \/ \E userId \in Users, id \in {<<"seed", 2>>, <<"new", 1, 1>>} : Unassign(userId, id)
  \/ \E userId \in Users : ClearQueue(userId, "qA")

\* a call of run with calls of the assignments router made while it is in progress
SpecAssign == InitAssign /\ [][NextAssign]_vars

(***************************************************************************)
(* The calls of one user to the assignments router, one after the other:   *)
(* a call begins only when the call of assign / assignJudgeToQueue before  *)
(* it has returned or thrown.                                              *)
(***************************************************************************)
\* no call of assign / assignJudgeToQueue is between two of its awaits
NoAssignInProgress == assignCall.pc \notin {"check", "insert"}

\* the judge id lists and question id lists of the calls: an id alone, an id
\* twice, two ids, and the id of no judge
SeqJudgeIdLists == { <<"j1">>, <<"j1", "j1">>, <<"j2", "j1">>, <<"j1", "j9">> }
SeqQuestionIdLists == { <<"t1", "t1">>, <<"t2", "t1">> }

NextSeq ==
  \/ \E judgeIds \in SeqJudgeIdLists : Assign("u1", "qA", "t1", judgeIds)
  \/ \E questionIds \in SeqQuestionIdLists :
       AssignJudgeToQueue("u1", "qA", "j1", questionIds)
  \/ AssignChecked
  \/ AssignInserted
  \/ NoAssignInProgress /\ \E id \in AssignmentIds : Unassign("u1", id)
  \/ NoAssignInProgress /\ UnassignJudgeFromQuestion("u1", "qA", "t1", "j1")
  \/ NoAssignInProgress /\ ClearQueue("u1", "qA")

\* user u1 calls the assignments router sequentially
SpecSeq == InitRouter /\ [][NextSeq]_vars

(***************************************************************************)
(* Two calls of assign / assignJudgeToQueue in progress at once.           *)
(* assignCall is the frame of one and otherAssign the frame of the second; *)
(* SwitchAssign exchanges them, so that the awaits of the two calls        *)
(* resolve in every order.                                                 *)
(***************************************************************************)
SwitchAssign ==
  /\ otherAssign' = assignCall
  /\ assignCall' = otherAssign
  /\ UNCHANGED <<dbVars, evaluations, callVars, poolVars, response, calls, history, other,
                 ops, lastReply, toggleCall, otherToggle, uploadCall, page>>

NextRace ==
  \/ \E userId \in Users, judgeIds \in JudgeIdLists : Assign(userId, "qA", "t1", judgeIds)
  \/ \E userId \in Users, questionIds \in QuestionIdLists :
       AssignJudgeToQueue(userId, "qA", "j1", questionIds)
  \/ AssignChecked
  \/ AssignInserted
  \/ SwitchAssign

\* calls of assign and assignJudgeToQueue, up to two of them in progress
SpecRace == InitRouter /\ [][NextRace]_vars

(***************************************************************************)
(* judgesRouter, submissionsRouter, questionsRouter and the read handlers  *)
(* of evaluationsRouter.  Each handler below has one await, so it is one   *)
(* step, except judges.toggleActive, which selects and then updates.       *)
(***************************************************************************)
\* the effects common to the steps that begin a call to these routers
CallBegins ==
  /\ ops < MaxOps
  /\ ops' = ops + 1
  /\ UNCHANGED <<callVars, poolVars, response, calls, history, other, assignCall>>

Unauthenticated(op, userId) == Threw(op, userId, "User not authenticated")

\* the owner of the row with the id, per the tables (Null if there is none);
\* a question row and an evaluation row belong to the owner of the submission
\* they hang from
OwnerOfJudge(id) ==
  IF \E j \in judges : j.id = id
  THEN (CHOOSE j \in judges : j.id = id).userId ELSE Null
OwnerOfSubmission(id) ==
  IF \E x \in submissions : x.id = id
  THEN (CHOOSE x \in submissions : x.id = id).userId ELSE Null
OwnerOfQuestionRow(id) ==
  IF \E x \in questions : x.id = id
  THEN OwnerOfSubmission((CHOOSE x \in questions : x.id = id).submissionId) ELSE Null
OwnerOfEvaluation(id) ==
  IF \E e \in evaluations : e.id = id
  THEN OwnerOfQuestionRow((CHOOSE e \in evaluations : e.id = id).questionId) ELSE Null

\* mutant: the judge is looked up by its id alone
OwnJudges_AnyUser(userId, id) == { j \in judges : j.id = id }

\* judges where id = .. and userId = ..
OwnJudges(userId, id) == { j \in judges : j.id = id /\ j.userId = userId }

\* judges.get({id})
JudgeGet(userId, id) ==
  /\ CallBegins
  /\ lastReply' = Targeting(
       IF userId = NoSession THEN Unauthenticated("judges.get", userId)
       ELSE IF OwnJudges(userId, id) = {} THEN Threw("judges.get", userId, "Judge not found")
       ELSE Returned("judges.get", userId, 1, OwnJudges(userId, id)),
       OwnerOfJudge(id))
  /\ UNCHANGED <<dbVars, evaluations, toggleCall, moreVars>>

\* judges.update({id, modelName}): update ... set ... where id and userId returning
JudgeUpdate(userId, id, modelName) ==
  /\ CallBegins
  /\ LET own == IF userId = NoSession THEN {} ELSE OwnJudges(userId, id)
         updated == { [j EXCEPT !.modelName = modelName] : j \in own }
     IN /\ judges' = (judges \ own) \cup updated
        /\ lastReply' = Targeting(
             IF userId = NoSession THEN Unauthenticated("judges.update", userId)
             ELSE IF updated = {} THEN Threw("judges.update", userId, "Judge not found")
             ELSE Returned("judges.update", userId, 1, updated),
             OwnerOfJudge(id))
  /\ UNCHANGED <<submissions, questions, assignments, evaluations, toggleCall, moreVars>>

\* mutant: the judge row is deleted, and with it the rows that reference it
JudgeDelete_Hard(userId, id) ==
  /\ CallBegins
  /\ LET own == IF userId = NoSession THEN {} ELSE OwnJudges(userId, id)
     IN /\ judges' = judges \ own
        /\ assignments' = { a \in assignments : \A j \in own : a.judgeId # j.id }
        /\ evaluations' = { e \in evaluations : \A j \in own : e.judgeId # j.id }
        /\ lastReply' = Targeting(
             IF userId = NoSession THEN Unauthenticated("judges.delete", userId)
             ELSE IF own = {} THEN Threw("judges.delete", userId, "Judge not found")
             ELSE Returned("judges.delete", userId, 1, {[deletedId |-> id]}),
             OwnerOfJudge(id))
  /\ UNCHANGED <<submissions, questions, toggleCall, moreVars>>

\* judges.delete({id}): the soft delete, isActive = false; it returns
\* {success, deletedId}
JudgeDelete(userId, id) ==
  /\ CallBegins
  /\ LET own == IF userId = NoSession THEN {} ELSE OwnJudges(userId, id)
         updated == { [j EXCEPT !.isActive = FALSE] : j \in own }
     IN /\ judges' = (judges \ own) \cup updated
        /\ lastReply' = Targeting(
             IF userId = NoSession THEN Unauthenticated("judges.delete", userId)
             ELSE IF updated = {} THEN Threw("judges.delete", userId, "Judge not found")
             ELSE Returned("judges.delete", userId, 1, {[deletedId |-> id]}),
             OwnerOfJudge(id))
  /\ UNCHANGED <<submissions, questions, assignments, evaluations, toggleCall, moreVars>>

\* judges.toggleActive({id}) up to its update: the judge is selected; the
\* update is sent with the negation of the flag that was read
ToggleSelect(userId, id) ==
  /\ toggleCall.pc = "idle"
  /\ CallBegins
  /\ LET own == IF userId = NoSession THEN {} ELSE OwnJudges(userId, id) IN
     IF own = {}
     THEN /\ lastReply' = Targeting(
               IF userId = NoSession THEN Unauthenticated("judges.toggleActive", userId)
               ELSE Threw("judges.toggleActive", userId, "Judge not found"),
               OwnerOfJudge(id))
          /\ UNCHANGED toggleCall
     ELSE /\ toggleCall' = [pc |-> "update", userId |-> userId, id |-> id,
                            isActive |-> (CHOOSE j \in own : TRUE).isActive,
                            completed |-> toggleCall.completed]
          /\ UNCHANGED lastReply
  /\ UNCHANGED <<dbVars, evaluations, moreVars>>

\* the update of judges.toggleActive resolves
ToggleUpdate ==
  /\ toggleCall.pc = "update"
  /\ LET own == OwnJudges(toggleCall.userId, toggleCall.id)
         updated == { [j EXCEPT !.isActive = ~toggleCall.isActive] : j \in own }
     IN /\ judges' = (judges \ own) \cup updated
        /\ lastReply' = Targeting(
             Returned("judges.toggleActive", toggleCall.userId, Cardinality(updated), updated),
             OwnerOfJudge(toggleCall.id))
  /\ toggleCall' = [IdleToggle EXCEPT !.completed = Append(toggleCall.completed,
                                                           toggleCall.id)]
  /\ UNCHANGED <<submissions, questions, assignments, evaluations, callVars, poolVars,
                 response, calls, history, other, assignCall, ops, moreVars>>

\* judges.list({activeOnly}) over the rows J of table judges
ListJudges(userId, activeOnly, J) ==
  { j \in J : j.userId = userId /\ (activeOnly => j.isActive) }

JudgeList(userId, activeOnly) ==
  /\ CallBegins
  /\ lastReply' =
       IF userId = NoSession THEN Unauthenticated("judges.list", userId)
       ELSE LET found == ListJudges(userId, activeOnly, judges)
            IN Returned("judges.list", userId, Cardinality(found), found)
  /\ UNCHANGED <<dbVars, evaluations, toggleCall, moreVars>>

\* submissions where id = .. and userId = ..
OwnSubmissions(userId, id) == { x \in submissions : x.id = id /\ x.userId = userId }

\* submissions.get({id})
SubmissionGet(userId, id) ==
  /\ CallBegins
  /\ lastReply' = Targeting(
       IF userId = NoSession THEN Unauthenticated("submissions.get", userId)
       ELSE IF OwnSubmissions(userId, id) = {}
       THEN Threw("submissions.get", userId, "Submission not found")
       ELSE Returned("submissions.get", userId, 1, OwnSubmissions(userId, id)),
       OwnerOfSubmission(id))
  /\ UNCHANGED <<dbVars, evaluations, toggleCall, moreVars>>

\* submissions.delete({id}): the delete cascades to the question rows of the
\* submission and from them to their evaluation rows
SubmissionDelete(userId, id) ==
  /\ CallBegins
  /\ LET deleted == IF userId = NoSession THEN {} ELSE OwnSubmissions(userId, id)
         gone == { x \in questions : \E d \in deleted : x.submissionId = d.id }
     IN /\ submissions' = submissions \ deleted
        /\ questions' = questions \ gone
        /\ evaluations' = { e \in evaluations : \A x \in gone : e.questionId # x.id }
        /\ lastReply' = Targeting(
             IF userId = NoSession THEN Unauthenticated("submissions.delete", userId)
             ELSE IF deleted = {} THEN Threw("submissions.delete", userId, "Submission not found")
             ELSE Returned("submissions.delete", userId, Cardinality(deleted), {}),
             OwnerOfSubmission(id))
  /\ UNCHANGED <<judges, assignments, toggleCall, moreVars>>

\* submissions.list({}) over the rows S, Q of submissions and questions: the
\* caller's submissions, each with the number of its question rows
ListSubmissions(userId, S, Q) ==
  { [submission |-> x,
     questionCount |-> Cardinality({ y \in Q : y.submissionId = x.id })] :
      x \in { z \in S : z.userId = userId } }

SubmissionList(userId) ==
  /\ CallBegins
  /\ lastReply' =
       IF userId = NoSession THEN Unauthenticated("submissions.list", userId)
       ELSE LET found == ListSubmissions(userId, submissions, questions)
            IN Returned("submissions.list", userId, Cardinality(found), found)
  /\ UNCHANGED <<dbVars, evaluations, toggleCall, moreVars>>

\* submissions.getQueues over the rows S, Q: per queue of the caller's
\* submissions, count(distinct submissions.id) and count(distinct
\* questions.questionId)
QueueStats(userId, S, Q) ==
  LET own == { z \in S : z.userId = userId } IN
  { [queueId |-> q,
     submissionCount |-> Cardinality({ z \in own : z.queueId = q }),
     questionCount |->
       Cardinality({ y.questionId :
                       y \in { v \in Q : \E z \in own :
                                 z.queueId = q /\ v.submissionId = z.id } })] :
      q \in { z.queueId : z \in own } }

GetQueues(userId) ==
  /\ CallBegins
  /\ lastReply' =
       IF userId = NoSession THEN Unauthenticated("submissions.getQueues", userId)
       ELSE LET found == QueueStats(userId, submissions, questions)
            IN Returned("submissions.getQueues", userId, Cardinality(found), found)
  /\ UNCHANGED <<dbVars, evaluations, toggleCall, moreVars>>

\* questions.get({id}): questions left join submissions where id and userId
QuestionGet(userId, id) ==
  /\ CallBegins
  /\ LET found == { x \in questions :
                      /\ x.id = id
                      /\ \E z \in submissions : z.id = x.submissionId /\ z.userId = userId }
     IN lastReply' = Targeting(
          IF userId = NoSession THEN Unauthenticated("questions.get", userId)
          ELSE IF found = {} THEN Threw("questions.get", userId, "Question not found")
          ELSE Returned("questions.get", userId, 1, found),
          OwnerOfQuestionRow(id))
  /\ UNCHANGED <<dbVars, evaluations, toggleCall, moreVars>>

\* evaluations left join questions left join submissions left join judges
\* where submissions.userId = ..: the rows E joined through Q to S, and to J
\* on the judge id (every evaluation row references a row of each table)
JoinedEvaluations(userId, E, Q, S, J) ==
  { r \in [evaluation : E, question : Q, submission : S, judge : J] :
      /\ r.evaluation.questionId = r.question.id
      /\ r.question.submissionId = r.submission.id
      /\ r.evaluation.judgeId = r.judge.id
      /\ r.submission.userId = userId }

\* evaluations.get({id})
EvaluationGet(userId, id) ==
  /\ CallBegins
  /\ LET found == { r \in JoinedEvaluations(userId, evaluations, questions, submissions,
                                              judges) :
                      r.evaluation.id = id }
     IN lastReply' = Targeting(
          IF userId = NoSession THEN Unauthenticated("evaluations.get", userId)
          ELSE IF found = {} THEN Threw("evaluations.get", userId, "Evaluation not found")
          ELSE Returned("evaluations.get", userId, 1, found),
          OwnerOfEvaluation(id))
  /\ UNCHANGED <<dbVars, evaluations, toggleCall, moreVars>>

\* evaluations.list({}) without filters
EvaluationList(userId) ==
  /\ CallBegins
  /\ lastReply' =
       IF userId = NoSession THEN Unauthenticated("evaluations.list", userId)
       ELSE LET found == JoinedEvaluations(userId, evaluations, questions, submissions,
                                           judges)
            IN Returned("evaluations.list", userId, Cardinality(found), found)
  /\ UNCHANGED <<dbVars, evaluations, toggleCall, moreVars>>

\* evaluations.stats({}): the counts over the caller's joined rows (the
\* query of stats does not join judges); passRate is computed from passCount
\* and total
Stats(userId, E, Q, S) ==
  LET found == { r \in [evaluation : E, question : Q, submission : S] :
                   /\ r.evaluation.questionId = r.question.id
                   /\ r.question.submissionId = r.submission.id
                   /\ r.submission.userId = userId } IN
  [total |-> Cardinality(found),
   passCount |-> Cardinality({ r \in found : r.evaluation.verdict = "pass" }),
   failCount |-> Cardinality({ r \in found : r.evaluation.verdict = "fail" }),
   inconclusiveCount |->
     Cardinality({ r \in found : r.evaluation.verdict = "inconclusive" })]

EvaluationStats(userId) ==
  /\ CallBegins
  /\ lastReply' =
       IF userId = NoSession THEN Unauthenticated("evaluations.stats", userId)
       ELSE Returned("evaluations.stats", userId, 1,
                     {Stats(userId, evaluations, questions, submissions)})
  /\ UNCHANGED <<dbVars, evaluations, toggleCall, moreVars>>

\* evaluation rows earlier runs left: u1's run of qA stored a verdict for
\* (t1 of s1, j1) and a fallback row for (t1 of s2, j1), u2's run a verdict for
\* (t1 of s3, j3)
EarlierEvaluations ==
  { [id |-> <<0, 0, "verdict">>, questionId |-> <<"t1", "s1">>, judgeId |-> "j1",
     verdict |-> "pass", reasoning |-> "reasoning-10", tokensUsed |-> 7,
     latencyMs |-> 5, error |-> Null],
    [id |-> <<0, 1, "fallback">>, questionId |-> <<"t1", "s2">>, judgeId |-> "j1",
     verdict |-> "inconclusive", reasoning |-> "Unknown error", tokensUsed |-> 0,
     latencyMs |-> 0, error |-> "Unknown error"],
    [id |-> <<0, 2, "verdict">>, questionId |-> <<"t1", "s3">>, judgeId |-> "j3",
     verdict |-> "fail", reasoning |-> "reasoning-500", tokensUsed |-> 7,
     latencyMs |-> 5, error |-> Null] }

\* a database after both users uploaded, assigned and ran queue qA; no call
\* is in progress
InitCrud ==
  /\ judges = JudgeRows
  /\ submissions = SubmissionRows
  /\ questions = { x \in QuestionPool : x.questionId = "t1" /\ x.queueId = "qA" }
  /\ assignments = { a \in AssignmentPool : a.id \in {<<"seed", 1>>, <<"seed", 6>>} }
  /\ evaluations \in SUBSET EarlierEvaluations
  /\ SetCallNow(IdleCall)
  /\ calls = 0
  /\ history = <<>>
  /\ other = IdleCall
  /\ assignCall = IdleAssign
  /\ ops = 0
  /\ lastReply = NoReply
  /\ toggleCall = IdleToggle
  /\ otherAssign = IdleAssign
  /\ otherToggle = IdleToggle
  /\ uploadCall = IdleUpload
  /\ page = ClosedPage

\* the ids and inputs of the calls explored: a row of each user per table
JudgeIds == {"j1", "j3"}
SubmissionIds == {"s1", "s3"}
QuestionRowIds == { <<"t1", "s1">>, <<"t1", "s3">> }
EvaluationIds == { <<0, 0, "verdict">>, <<0, 2, "verdict">> }
Callers == Users \cup {NoSession}

CrudNext ==
  \/ \E userId \in Callers, id \in JudgeIds : JudgeGet(userId, id)
  \/ \E userId \in Callers, id \in JudgeIds :
       JudgeUpdate(userId, id, "xai/grok-4-fast-reasoning")
  \/ \E userId \in Callers, id \in JudgeIds : JudgeDelete(userId, id)
  \/ \E userId \in Callers, id \in JudgeIds : ToggleSelect(userId, id)
  \/ ToggleUpdate
  \/ \E userId \in Callers, activeOnly \in BOOLEAN : JudgeList(userId, activeOnly)
  \/ \E userId \in Callers, id \in SubmissionIds : SubmissionGet(userId, id)
  \/ \E userId \in Callers, id \in SubmissionIds : SubmissionDelete(userId, id)
  \/ \E userId \in Callers : SubmissionList(userId)
  \/ \E userId \in Callers : GetQueues(userId)
  \/ \E userId \in Callers, id \in QuestionRowIds : QuestionGet(userId, id)
  \/ \E userId \in Callers, id \in AssignmentIds : Unassign(userId, id)
  \/ \E userId \in Callers, id \in EvaluationIds : EvaluationGet(userId, id)
  \/ \E userId \in Callers : EvaluationList(userId)
  \/ \E userId \in Callers : EvaluationStats(userId)

\* calls of both users to the routers other than run, in any order
SpecCrud == InitCrud /\ [][CrudNext]_vars

(***************************************************************************)
(* submissions.delete while a call of run is in progress.                  *)
(***************************************************************************)
\* the databases of Init with at most the first two assignments of u1 in qA
\* and question rows of the submissions s1 and s2 of u1
InitDelete ==
  /\ Init
  /\ \A a \in assignments : a.id \in {<<"seed", 1>>, <<"seed", 2>>}
  /\ \A x \in questions : x.submissionId \in {"s1", "s2"}

NextDelete ==
  \/ Run("u1", "qA")
  \/ PoolNext
  \/ SubmissionDelete("u1", "s1")

\* a call of run by u1 with calls of submissions.delete by u1 on its
\* submission s1 at any moment
SpecDelete == InitDelete /\ [][NextDelete]_vars

\* the same, where every sent query, insert and provider call settles and
\* every continuation that is ready runs
FairSpecDelete == SpecDelete /\ WF_vars(PoolNext)

(***************************************************************************)
(* submissionsRouter.upload (packages/api/src/routers/submissions.ts).     *)
(* Ids are strings; an id is kept here as the sequence of its pieces, "_"  *)
(* being a piece of its own, so that the template literal                  *)
(* `${questionId}_${submission.id}` is the concatenation it is in the code. *)
(***************************************************************************)
\* the pieces of an id: the ids "a_b" and "b_c" contain an underscore
Pieces(id) ==
  CASE id = "a_b" -> <<"a", "_", "b">>
    [] id = "b_c" -> <<"b", "_", "c">>
    [] OTHER -> <<id>>

\* `${questionId}_${submission.id}`
CompositeId(questionId, submissionId) ==
  Pieces(questionId) \o <<"_">> \o Pieces(submissionId)

\* what the inserts of upload are rejected with
SubmissionKeyViolation == "duplicate key value violates unique constraint submissions_pkey"
QuestionKeyViolation == "duplicate key value violates unique constraint questions_pkey"
DuplicateSubmissions == "Duplicate submission IDs found"

\* a submission of the uploaded JSON: its id, its queue and the data.id of
\* its questions, in order
UploadedSubmission(id, q, questionIds) ==
  [id |-> id, queueId |-> q, questions |-> questionIds]

\* the values of the submission insert
SubmissionValues(userId, submission) ==
  [id |-> submission.id, userId |-> userId, queueId |-> submission.queueId]

\* questionInserts: one row per entry of submission.questions
QuestionInserts(submission) ==
  [k \in DOMAIN submission.questions |->
     [id |-> CompositeId(submission.questions[k], submission.id),
      submissionId |-> submission.id,
      queueId |-> submission.queueId,
      questionId |-> submission.questions[k]]]

\* the loop of upload goes on to its next submission; after the last one the
\* handler throws if it skipped a duplicate and returns otherwise
NextSubmission(frame) ==
  LET rest == Tail(frame.batch) IN
  IF rest # <<>>
  THEN [frame EXCEPT !.batch = rest, !.pc = "check"]
  ELSE IF frame.duplicateIds # <<>>
  THEN [frame EXCEPT !.batch = rest, !.pc = "failed", !.message = DuplicateSubmissions]
  ELSE [frame EXCEPT !.batch = rest, !.pc = "returned"]

\* upload(input) up to its first await: the session check, then the select
\* for the first submission is sent
Upload(userId, input) ==
  /\ uploadCall.pc \in {"idle", "returned", "failed"}
  /\ ops < MaxOps
  /\ ops' = ops + 1
  /\ uploadCall' =
       LET called == [userId |-> userId, batch |-> input, input |-> input,
                      insertedSubmissions |-> <<>>, duplicateIds |-> <<>>,
                      number |-> ops + 1]
       IN IF userId = NoSession
          THEN [pc |-> "failed", message |-> "User not authenticated"] @@ called
          ELSE [pc |-> IF input = <<>> THEN "returned" ELSE "check",
                message |-> Null] @@ called
  /\ UNCHANGED <<dbVars, evaluations, callVars, poolVars, response, calls, history, other,
                 assignCall, lastReply, toggleCall, otherAssign, otherToggle, page>>

\* the select resolves: a submission the caller owns is a duplicate and is
\* skipped, else the submission insert is sent
UploadChecked ==
  /\ uploadCall.pc = "check"
  /\ uploadCall' =
       IF OwnSubmissions(uploadCall.userId, Head(uploadCall.batch).id) # {}
       THEN NextSubmission([uploadCall EXCEPT
                              !.duplicateIds = Append(@, Head(uploadCall.batch).id)])
       ELSE [uploadCall EXCEPT !.pc = "insertSubmission"]
  /\ UNCHANGED <<dbVars, evaluations, callVars, poolVars, response, calls, history, other,
                 assignCall, ops, lastReply, toggleCall, otherAssign, otherToggle, page>>

\* the submission insert resolves with the stored row, or is rejected by the
\* primary key of the table, which the handler does not catch; with no
\* question there is no further insert
UploadSubmissionInserted ==
  /\ uploadCall.pc = "insertSubmission"
  /\ LET submission == Head(uploadCall.batch)
         row == SubmissionValues(uploadCall.userId, submission)
     IN IF \E x \in submissions : x.id = row.id
        THEN /\ uploadCall' = [uploadCall EXCEPT !.pc = "failed",
                                                  !.message = SubmissionKeyViolation]
             /\ UNCHANGED submissions
        ELSE /\ submissions' = submissions \cup {row}
             /\ uploadCall' =
                  LET stored == [uploadCall EXCEPT !.insertedSubmissions = Append(@, row)]
                  IN IF submission.questions = <<>>
                     THEN NextSubmission(stored)
                     ELSE [stored EXCEPT !.pc = "insertQuestions"]
  /\ UNCHANGED <<judges, questions, assignments, evaluations, callVars, poolVars, response,
                 calls, history, other, assignCall, ops, lastReply, toggleCall,
                 otherAssign, otherToggle, page>>

\* the insert of the question rows, one statement, resolves, or is rejected
\* by the primary key of the table when two of its rows, or one of them and
\* a stored row, have the same id; the submission row stays
UploadQuestionsInserted ==
  /\ uploadCall.pc = "insertQuestions"
  /\ LET rows == QuestionInserts(Head(uploadCall.batch))
     IN IF \/ \E k, l \in DOMAIN rows : k # l /\ rows[k].id = rows[l].id
           \/ \E k \in DOMAIN rows : \E x \in questions : x.id = rows[k].id
        THEN /\ uploadCall' = [uploadCall EXCEPT !.pc = "failed",
                                                  !.message = QuestionKeyViolation]
             /\ UNCHANGED questions
        ELSE /\ questions' = questions \cup { rows[k] : k \in DOMAIN rows }
             /\ uploadCall' = NextSubmission(uploadCall)
  /\ UNCHANGED <<judges, submissions, assignments, evaluations, callVars, poolVars,
                 response, calls, history, other, assignCall, ops, lastReply, toggleCall,
                 otherAssign, otherToggle, page>>

\* the files uploaded: one submission; one with two questions; two
\* submissions; the same submission twice; a submission without questions
\* before one of another queue
UploadInputs ==
  { << UploadedSubmission("c", "qA", <<"a">>) >>,
    << UploadedSubmission("c", "qA", <<"a", "a_b">>) >>,
    << UploadedSubmission("b_c", "qA", <<"a">>), UploadedSubmission("c", "qA", <<"a_b">>) >>,
    << UploadedSubmission("c", "qA", <<"a">>), UploadedSubmission("c", "qA", <<"a">>) >>,
    << UploadedSubmission("s1", "qA", <<"t1">>), UploadedSubmission("b_c", "qB", <<>>) >> }

\* a database in which u1 has uploaded s1 and u2 s3, each with its question
\* t1, and earlier runs may have stored evaluation rows for them
InitUpload ==
  /\ judges = JudgeRows
  /\ submissions = { x \in SubmissionRows : x.id \in {"s1", "s3"} }
  /\ questions = { x \in QuestionPool : x.questionId = "t1" /\ x.submissionId \in {"s1", "s3"} }
  /\ assignments = {}
  /\ evaluations \in SUBSET { e \in EarlierEvaluations : e.questionId[2] \in {"s1", "s3"} }
  /\ SetCallNow(IdleCall)
  /\ calls = 0
  /\ history = <<>>
  /\ other = IdleCall
  /\ assignCall = IdleAssign
  /\ ops = 0
  /\ lastReply = NoReply
  /\ toggleCall = IdleToggle
  /\ otherAssign = IdleAssign
  /\ otherToggle = IdleToggle
  /\ uploadCall = IdleUpload
  /\ page = ClosedPage

\* no call of upload is between two of its awaits
NoUploadInProgress == uploadCall.pc \notin {"check", "insertSubmission", "insertQuestions"}

NextUpload ==
  \/ \E userId \in Callers, input \in UploadInputs : Upload(userId, input)
  \/ UploadChecked
  \/ UploadSubmissionInserted
  \/ UploadQuestionsInserted
  \/ NoUploadInProgress /\ \E userId \in Users, id \in {"s1", "c"} : SubmissionDelete(userId, id)

\* calls of upload and delete by both users, one after the other
SpecUpload == InitUpload /\ [][NextUpload]_vars

(***************************************************************************)
(* Two calls of judges.toggleActive in progress at once: toggleCall is the *)
(* frame of one and otherToggle the frame of the second.                   *)
(***************************************************************************)
SwitchToggle ==
  /\ otherToggle' = toggleCall
  /\ toggleCall' = otherToggle
  /\ UNCHANGED <<dbVars, evaluations, callVars, poolVars, response, calls, history, other,
                 assignCall, ops, lastReply, otherAssign, uploadCall, page>>

NextToggle ==
  \/ \E id \in {"j1", "j2"} : ToggleSelect("u1", id)
  \/ ToggleUpdate
  \/ SwitchToggle

\* calls of toggleActive by u1 on its judges j1 and j2, up to two in progress
SpecToggle == InitCrud /\ [][NextToggle]_vars

(***************************************************************************)
(* The queue page (dashboard.queue.$queueId).  Its queries call the API as *)
(* the signed-in user; the preview is computed in the browser from what    *)
(* two of them returned.                                                   *)
(***************************************************************************)
\* allQuestionsQuery: input { queueId, limit: 1000, offset: 0 }
ALL_QUESTIONS_LIMIT == 1000

\* assignments.getByQueue: queue_judge_assignments LEFT JOIN judges
\* WHERE queueId = .. AND userId = ..
AssignmentsGetByQueue(userId, q) ==
  { [assignment |-> a, judge |-> JudgeOf(a.judgeId)] :
      a \in { x \in assignments : x.queueId = q /\ x.userId = userId } }

\* questions.list at offset 0: questions LEFT JOIN submissions WHERE queueId = ..
\* AND submissions.userId = .. LIMIT lim; the rows beyond the limit are dropped
QuestionsList(userId, q, lim) ==
  LET found == { x \in questions :
                   /\ x.queueId = q
                   /\ \E s \in submissions : s.id = x.submissionId /\ s.userId = userId }
  IN IF Cardinality(found) <= lim THEN found
     ELSE CHOOSE page1 \in SUBSET found : Cardinality(page1) = lim

\* the loop of plannedEvaluations: assignments whose join found no judge are
\* skipped, every other one adds the number of listed rows with its questionId
RECURSIVE PreviewTotal(_, _)
PreviewTotal(rows, allQuestions) ==
  IF rows = {} THEN 0
  ELSE LET a == CHOOSE x \in rows : TRUE
           countForQuestionId ==
             Cardinality({ x \in allQuestions : x.questionId = a.assignment.questionId })
       IN (IF a.judge = NullJudge THEN 0 ELSE countForQuestionId)
          + PreviewTotal(rows \ {a}, allQuestions)

\* 'Preview: N total evaluations' as the page of userId shows it for queue q
PlannedEvaluations(userId, q) ==
  PreviewTotal(AssignmentsGetByQueue(userId, q),
               QuestionsList(userId, q, ALL_QUESTIONS_LIMIT))

\* evaluations.list({queueId}): the caller's joined rows, filtered by the
\* queue of the question row
ListedEvaluations(userId, q) ==
  { r \in JoinedEvaluations(userId, evaluations, questions, submissions, judges) :
      r.question.queueId = q }

\* questions.getUniqueByQueue: one entry per questionId of the caller's
\* question rows of the queue
UniqueQuestions(userId, q) ==
  { x.questionId : x \in { y \in questions :
      /\ y.queueId = q
      /\ \E s \in submissions : s.id = y.submissionId /\ s.userId = userId } }

\* the length of the array a query of the page gets from the API now
QueryResult(name, userId, q) ==
  CASE name = "questions" -> Cardinality(UniqueQuestions(userId, q))
    [] name = "allQuestions" -> Cardinality(QuestionsList(userId, q, ALL_QUESTIONS_LIMIT))
    [] name = "assignments" -> Cardinality(AssignmentsGetByQueue(userId, q))
    [] name = "evaluations" -> Cardinality(ListedEvaluations(userId, q))
    [] name = "judges" -> Cardinality(ListJudges(userId, FALSE, judges))

\* (query.data?.rows.length || 0)
LengthOrZero(data) == IF data = NoData THEN 0 ELSE data

DetermineQueueStatus(hasEvaluations, isRunning) ==
  IF hasEvaluations THEN "done"
  ELSE IF isRunning THEN "processing"
  ELSE "prep"

HasAssignments == LengthOrZero(page.data["assignments"]) > 0
HasEvaluations == LengthOrZero(page.data["evaluations"]) > 0
QueueStatus == DetermineQueueStatus(HasEvaluations, page.isRunning)

\* query.isLoading: the first fetch of a query is in flight
QueryIsLoading(name) == name \in page.fetching /\ page.data[name] = NoData
\* evaluationsQuery is not among the queries of isLoading
IsLoading ==
  \E name \in {"questions", "allQuestions", "assignments", "judges"} : QueryIsLoading(name)

RunIsPending == page.mutation = "pending"

\* the Run Evaluations button is rendered and enabled: PrepSection is
\* rendered, its 'Ready to Run' card is, and the button is not disabled
RunOffered ==
  /\ page.open
  /\ ~IsLoading /\ QueueStatus = "prep"
  /\ HasAssignments
  /\ ~(RunIsPending \/ ~HasAssignments)

\* the signed-in user opens the page of a queue: useState(false), an idle
\* mutation and every query sent
OpenPage(userId, q) ==
  /\ ~page.open
  /\ page' = [ClosedPage EXCEPT !.open = TRUE, !.userId = userId, !.queueId = q,
                                !.fetching = QueryNames]
  /\ UNCHANGED <<dbVars, evaluations, callVars, poolVars, response, calls, history, other,
                 assignCall, ops, lastReply, toggleCall, otherAssign, otherToggle,
                 uploadCall>>

\* the response of a query arrives and replaces the cached data
QueryResolves(name) ==
  /\ page.open
  /\ name \in page.fetching
  /\ page' = [page EXCEPT !.fetching = @ \ {name},
                          !.data[name] = QueryResult(name, page.userId, page.queueId)]
  /\ UNCHANGED <<dbVars, evaluations, callVars, poolVars, response, calls, history, other,
                 assignCall, ops, lastReply, toggleCall, otherAssign, otherToggle,
                 uploadCall>>

\* a click on Run Evaluations: handleRunEvaluations.  One run of the page is
\* followed: the click is taken while the server has served none.
HandleRunEvaluations ==
  /\ RunOffered
  /\ pc = "idle"
  /\ page' = IF ~HasAssignments THEN page
             ELSE [page EXCEPT !.isRunning = TRUE, !.mutation = "pending"]
  /\ UNCHANGED <<dbVars, evaluations, callVars, poolVars, response, calls, history, other,
                 assignCall, ops, lastReply, toggleCall, otherAssign, otherToggle,
                 uploadCall>>

\* the request of the mutation reaches the server: run begins
RunRequested ==
  /\ page.mutation = "pending"
  /\ Run(page.userId, page.queueId)

\* the response of run reaches the page: onSuccess invalidates every query
\* (the active ones are fetched again, their data staying in the cache) and
\* resets isRunning; onError resets isRunning
RunMutationSettles ==
  /\ page.mutation = "pending"
  /\ pc \in {"returned", "failed"}
  /\ page' = IF pc = "returned"
             THEN [page EXCEPT !.mutation = "success", !.fetching = QueryNames,
                               !.isRunning = FALSE]
             ELSE [page EXCEPT !.mutation = "error", !.isRunning = FALSE]
  /\ UNCHANGED <<dbVars, evaluations, callVars, poolVars, response, calls, history, other,
                 assignCall, ops, lastReply, toggleCall, otherAssign, otherToggle,
                 uploadCall>>

\* u1's assignments of qA are among seeds 1 and 2 and its question rows are
\* those of submission s1
InitPage ==
  /\ Init
  /\ \A a \in assignments : a.id \in {<<"seed", 1>>, <<"seed", 2>>}
  /\ \A x \in questions : x.submissionId = "s1"

NextPage ==
  \/ OpenPage("u1", "qA")
  \/ \E name \in QueryNames : QueryResolves(name)
  \/ HandleRunEvaluations
  \/ RunRequested
  \/ PoolNext
  \/ RunMutationSettles

\* u1 opens the page of queue qA and runs its evaluations from it
SpecPage == InitPage /\ [][NextPage]_vars

(***************************************************************************)
(* Properties.                                                             *)
(***************************************************************************)
Indices == DOMAIN tasks

SomeRejected == \E i \in DOMAIN results : results[i].status = "rejected"
SomeFallback ==
  \E i \in DOMAIN results : results[i].status = "fulfilled" /\ ~results[i].success
SomeCompleted ==
  \E i \in DOMAIN results : results[i].status = "fulfilled" /\ results[i].success

\* C1: whenever run has returned, whatever each task's call, verdict insert and
\* fallback insert did and however the workers interleaved, the returned counts
\* satisfy completed + failed = planned, planned being the length of the task list.
C1_CountsSum ==
  pc = "returned" =>
    /\ response.kind = "result"
    /\ response.planned = Len(tasks)
    /\ response.completed + response.failed = response.planned

\* C1 witness: a returned run of three tasks in which one task completed, one
\* stored its fallback row and one lost its fallback insert too
C1_Witness ==
  /\ pc = "returned"
  /\ response.planned = 3
  /\ SomeCompleted /\ SomeFallback /\ SomeRejected

\* C2: at every moment of a run the number of provider calls started and not
\* yet settled is at most the limit the pool was given.
C2_InFlightBounded == outstanding <= limit

\* C2 witness: the pool is saturated (as many calls outstanding as the limit)
\* after a worker has already come back for a further task, with a task still unclaimed
C2_Witness ==
  /\ pc = "running"
  /\ outstanding = limit
  /\ nextIndex > limit
  /\ nextIndex < Len(tasks)

\* C3: a run never aborts early because of one pair's failure.  With every
\* sent operation settling, a run that has started its pool always goes on to
\* return a result, with every task of the list started and every worker gone,
\* whichever tasks failed in their call, their insert or their fallback insert.
C3_RunCompletes ==
  (pc = "running") ~>
    (/\ pc = "returned"
     /\ response.kind = "result"
     /\ \A i \in DOMAIN started : started[i] >= 1
     /\ \A w \in DOMAIN workers : workers[w].pc = "done")

\* C3 witness: a run of three tasks on two workers has returned although the
\* first task lost both its call and its fallback insert
C3_Witness ==
  /\ pc = "returned"
  /\ Len(tasks) = 3
  /\ limit = 2
  /\ results[1].status = "rejected"
  /\ callLog[1] = "rejected"
  /\ started[3] = 1

\* C5: each task index is claimed by exactly one worker, the cursor moving by
\* one per claim: no two workers hold the same index, the provider call of a
\* task is issued at most once (no retry after a failure), the claimed tasks are
\* exactly those below the cursor (none skipped), and when run returns every
\* task has been issued exactly once.
C5_ClaimedOnce ==
  /\ \A i \in DOMAIN started : started[i] = (IF i <= nextIndex THEN 1 ELSE 0)
  /\ \A v, w \in DOMAIN workers :
       (v # w /\ workers[v].pc \in {"call", "insert", "fallback"}
              /\ workers[w].pc \in {"call", "insert", "fallback"})
         => workers[v].current # workers[w].current
  /\ pc = "returned" => \A i \in DOMAIN started : started[i] = 1

\* C5 witness: two workers have shared three tasks, the worker that lost its
\* first task's call going on to another task, and the run has returned
C5_Witness ==
  /\ pc = "returned"
  /\ Len(tasks) = 3
  /\ limit = 2
  /\ callLog[1] = "rejected"
  /\ callLog[3] = "resolved"
  /\ SomeFallback

\* the caller's assignment rows and question rows of the queue of the call
CallerAssignments ==
  { a \in assignments : a.queueId = queueId /\ a.userId = session }
CallerQuestions ==
  { x \in questions :
      /\ x.queueId = queueId
      /\ \E s \in submissions : s.id = x.submissionId /\ s.userId = session }
\* the assignment's judge exists, is the caller's and has an available model
AssignmentCounts(a) ==
  \E j \in judges :
    j.id = a.judgeId /\ j.userId = session /\ j.modelName \in AVAILABLE_MODELS
\* the (assignment, question row) pairs joined on the template id
PlannedPairs ==
  { pair \in CallerAssignments \X CallerQuestions :
      AssignmentCounts(pair[1]) /\ pair[2].questionId = pair[1].questionId }

\* C4: the planned count run returns is the number of (assignment, question
\* row) pairs of the caller in the queue whose template ids agree and whose
\* assignment has a present, eligible judge: the sum over those assignments of
\* their matching question rows; and the task list holds each such pair once.
C4_PlannedIsJoin ==
  pc = "returned" =>
    /\ response.planned = Cardinality(PlannedPairs)
    /\ \A pair \in PlannedPairs :
         Cardinality({ i \in DOMAIN tasks :
                         /\ tasks[i].question = pair[2]
                         /\ tasks[i].judge.id = pair[1].judgeId }) = 1

\* C4 witness: one assignment matched by two submitted instances of its
\* template and another matched by one give planned = 2 + 1
C4_Witness ==
  /\ pc = "returned"
  /\ response.planned = 3
  /\ Cardinality(CallerAssignments) = 2

\* C6: run on a queue in which the caller has no assignment fails with "No
\* judge assignments found for this queue", issues no provider call and leaves
\* table evaluations as it was.
C6_NoAssignmentsFails ==
  (pc \in {"fetchQuestions", "running", "returned", "failed"}
     /\ session \in Users /\ CallerAssignments = {})
  => /\ pc = "failed"
     /\ response.kind = "error"
     /\ response.message = "No judge assignments found for this queue"
     /\ evaluations = {}
     /\ outstanding = 0
     /\ started = <<>>

\* C6 witness: the call failed for want of assignments although the queue has
\* question rows of the caller and another user holds an assignment in it
C6_Witness ==
  /\ pc = "failed"
  /\ session \in Users
  /\ CallerAssignments = {}
  /\ CallerQuestions # {}
  /\ \E a \in assignments : a.queueId = queueId

\* a question row of the queue whose template id is some assignment's question id
MatchingQuestionExists ==
  \E a \in CallerAssignments, x \in CallerQuestions : x.questionId = a.questionId
\* the call is past both of its queries
PastQueries == pc \in {"running", "returned", "failed"} /\ session \in Users
NoWorkDone == evaluations = {} /\ outstanding = 0 /\ \A i \in DOMAIN started : started[i] = 0

\* C7 as claimed: run fails with an error, issues no provider call and writes
\* no row whenever the queue lacks an assignment or a matching question row,
\* also when it has question rows none of which matches an assignment.
C7_FailsWithoutMatch ==
  (PastQueries /\ (CallerAssignments = {} \/ ~MatchingQuestionExists))
  => (pc = "failed" /\ response.kind = "error" /\ NoWorkDone)

\* C7 amended: run fails with a descriptive error whenever the caller has no
\* assignment in the queue ("No judge assignments found for this queue") or,
\* having one, no question row in the queue ("No questions found for this
\* queue").  With assignments and question rows of which none matches, run does
\* not fail: it returns a result with planned = completed = failed = 0.  In all
\* three cases no provider call is issued and no evaluation row is written.
C7_FailsOnEmptyInputs ==
  /\ (PastQueries /\ CallerAssignments = {})
     => (pc = "failed" /\ NoWorkDone
         /\ response.message = "No judge assignments found for this queue")
  /\ (PastQueries /\ CallerAssignments # {} /\ CallerQuestions = {})
     => (pc = "failed" /\ NoWorkDone
         /\ response.message = "No questions found for this queue")
  /\ (PastQueries /\ CallerAssignments # {} /\ CallerQuestions # {}
        /\ ~MatchingQuestionExists)
     => (/\ pc # "failed"
         /\ NoWorkDone
         /\ pc = "returned" =>
              (response.kind = "result" /\ response.planned = 0
               /\ response.completed = 0 /\ response.failed = 0
               /\ response.evaluations = <<>>))

\* C7 witness: run has returned a result for a queue that has an assignment
\* and question rows, none of them of the assignment's template
C7_Witness ==
  /\ pc = "returned"
  /\ response.kind = "result"
  /\ response.planned = 0
  /\ CallerAssignments # {}
  /\ CallerQuestions # {}
  /\ ~MatchingQuestionExists

\* the rows the run wrote (table evaluations is empty when the run starts)
AllCallsThrew == \A i \in DOMAIN callLog : callLog[i] = "rejected"
AllFallbacksStored == ~SomeRejected

\* C8: when every provider call of a run threw and every fallback insert
\* succeeded, run returns completed = 0 and failed = planned with an empty
\* evaluations list, and every row the run wrote (one per task) has a non-null
\* error.
C8_AllCallsFail ==
  (pc = "returned" /\ AllCallsThrew /\ AllFallbacksStored) =>
    /\ response.completed = 0
    /\ response.failed = response.planned
    /\ response.evaluations = <<>>
    /\ \A row \in evaluations : row.error # Null
    /\ Cardinality(evaluations) = response.planned

\* C8 witness: three tasks, every call threw (one by a thrown non-Error, one
\* by a schema mismatch) and three fallback rows are stored
C8_Witness ==
  /\ pc = "returned"
  /\ response.planned = 3
  /\ AllCallsThrew /\ AllFallbacksStored
  /\ \E row \in evaluations : row.error = "Unknown error"
  /\ \E row \in evaluations : row.error = "response did not match schema"

\* C9: in every reachable state of the database every evaluation row has a
\* verdict among pass, fail and inconclusive.
C9_VerdictInEnum == \A row \in evaluations : row.verdict \in {"pass", "fail", "inconclusive"}

\* C9 witness: a stored verdict row with verdict pass beside a stored fallback
\* row, after the provider also answered outside the schema
C9_Witness ==
  /\ \E row \in evaluations : row.verdict = "pass" /\ row.error = Null
  /\ \E row \in evaluations : row.verdict = "fail" /\ row.error = Null
  /\ \E row \in evaluations : row.error = "response did not match schema"

\* the task index whose result slot holds the row, for a row of the success path
OnSuccessPath(row) ==
  \E i \in DOMAIN results :
    results[i].status = "fulfilled" /\ results[i].success /\ results[i].evaluation = row

\* C10: a row written on a task's failure path has verdict inconclusive,
\* reasoning equal to its error text, a non-null error and tokensUsed =
\* latencyMs = 0; a row written on the success path has a null error.  So a row
\* has a non-null error only if its verdict is inconclusive and its metrics zero.
C10_FailureRowShape ==
  \A row \in evaluations :
    /\ OnSuccessPath(row) => row.error = Null
    /\ ~OnSuccessPath(row) =>
         /\ row.verdict = "inconclusive"
         /\ row.error # Null
         /\ row.reasoning = row.error
         /\ row.tokensUsed = 0
         /\ row.latencyMs = 0
    /\ row.error # Null =>
         (row.verdict = "inconclusive" /\ row.tokensUsed = 0 /\ row.latencyMs = 0)

\* C10 witness: a fallback row written after a failed verdict insert, a
\* fallback row of a thrown non-Error and a success row with nonzero metrics
C10_Witness ==
  /\ \E row \in evaluations : row.error = "insert failed" /\ row.reasoning = "insert failed"
  /\ \E row \in evaluations : row.error = "Unknown error"
  /\ \E row \in evaluations : OnSuccessPath(row) /\ row.tokensUsed > 0 /\ row.latencyMs > 0

\* the last insert sent for task i was the fallback insert, and it was rejected
FallbackLost(i) ==
  /\ insertLog[i] # <<>>
  /\ insertLog[i][Len(insertLog[i])] = Refused("fallback")
LostTasks == { i \in DOMAIN insertLog : FallbackLost(i) }
\* the rows of table evaluations for the task's (question row, judge) pair
RowsOfPair(task) ==
  { row \in evaluations :
      row.questionId = task.question.id /\ row.judgeId = task.judge.id }

\* C11: when the fallback insert of a task is itself rejected, the failure is
\* absorbed: no row exists for that task's pair, the call does not throw (it is
\* never in its failed state once tasks run), every task of the list is still
\* started by the time run returns, and the returned counts put the task among
\* the failed ones: failed is at least, and completed at most planned less, the
\* number of such tasks, and no returned evaluation is for the pair.
C11_FallbackFailureAbsorbed ==
  /\ \A i \in LostTasks :
       /\ RowsOfPair(tasks[i]) = {}
       /\ pc \in {"running", "returned"}
  /\ (pc = "returned" /\ LostTasks # {}) =>
       /\ response.kind = "result"
       /\ \A i \in DOMAIN started : started[i] = 1
       /\ response.failed >= Cardinality(LostTasks)
       /\ response.completed <= response.planned - Cardinality(LostTasks)
       /\ \A i \in LostTasks, k \in DOMAIN response.evaluations :
            ~(/\ response.evaluations[k].questionId = tasks[i].question.id
              /\ response.evaluations[k].judgeId = tasks[i].judge.id)

\* C11 witness: a single worker lost the fallback insert of its first task
\* (after the provider call threw), went on to its two further tasks, stored a
\* verdict row for the last one, and run returned
C11_Witness ==
  /\ pc = "returned"
  /\ limit = 1
  /\ Len(tasks) = 3
  /\ callLog[1] = "rejected"
  /\ FallbackLost(1)
  /\ ~FallbackLost(2)
  /\ insertLog[3] = <<Stored("verdict")>>
  /\ response.completed >= 1

\* the rows of table evaluations this call inserted, and those of them for
\* the task at index i (1-based; the task's 0-based index is in the row's id)
RowsOfCall == { row \in evaluations : row.id[1] = callId }
RowsOfTask(i) == { row \in RowsOfCall : row.id[2] = i - 1 }
\* the inserts sent for task i that were stored
StoredInserts(i) == { k \in DOMAIN insertLog[i] : insertLog[i][k].stored }
\* the tasks in which runSingleEvaluation entered its catch block
CaughtTasks == { i \in DOMAIN caught : caught[i] >= 1 }
\* the elements of a sequence
Range(seq) == { seq[k] : k \in DOMAIN seq }

\* C12: when run has returned, completed is the number of rows the call
\* inserted with a null error, which is the length of the returned evaluations
\* list (that list holding exactly those rows, each once); failed is the number
\* of tasks in which an exception was caught, whether their fallback row was
\* stored or not; and at every moment each task has at most one stored insert
\* and at most one row.
C12_CountsMatchRows ==
  /\ \A i \in DOMAIN insertLog :
       /\ Cardinality(StoredInserts(i)) <= 1
       /\ Cardinality(RowsOfTask(i)) <= 1
       /\ Cardinality(RowsOfTask(i)) = Cardinality(StoredInserts(i))
  /\ pc = "returned" =>
       /\ response.completed = Cardinality({ row \in RowsOfCall : row.error = Null })
       /\ response.completed = Len(response.evaluations)
       /\ Range(response.evaluations) = { row \in RowsOfCall : row.error = Null }
       /\ response.failed = Cardinality(CaughtTasks)

\* C12 witness: of three tasks one stored its verdict row, one had its verdict
\* insert rejected and stored its fallback row, and one lost both its call and
\* its fallback insert: completed = 1, failed = 2, two rows
C12_Witness ==
  /\ pc = "returned"
  /\ response.completed = 1
  /\ response.failed = 2
  /\ Cardinality(RowsOfCall) = 2
  /\ \E i \in DOMAIN insertLog : insertLog[i] = <<Refused("verdict"), Stored("fallback")>>
  /\ \E i \in DOMAIN insertLog : callLog[i] = "rejected" /\ insertLog[i] = <<Refused("fallback")>>

\* C13 as claimed: run creates tasks only for assignments whose judge is
\* present and active: every task of the list carries a judge row that had
\* isActive = true when the assignments were loaded, so an assignment of an
\* inactive (soft-deleted) judge leads to no provider call and no row.
C13_OnlyActiveJudges ==
  /\ \A i \in DOMAIN tasks : tasks[i].judge.isActive
  /\ \A row \in RowsOfCall :
       \A j \in judges : j.id = row.judgeId => j.isActive

\* C13 witness of the divergence: run has returned with a stored verdict row for
\* a judge whose row has isActive = false, after a provider call for its task
C13_Witness ==
  /\ pc = "returned"
  /\ \E i \in DOMAIN tasks :
       /\ ~tasks[i].judge.isActive
       /\ started[i] = 1
       /\ callLog[i] = "resolved"
       /\ \E row \in RowsOfTask(i) : row.judgeId = tasks[i].judge.id /\ row.error = Null

\* the owner of the submission a question row id belongs to, per the tables
OwnerOfQuestion(questionRowId) ==
  { s.userId : s \in { x \in submissions :
      \E y \in questions : y.id = questionRowId /\ y.submissionId = x.id } }
\* the judge rows of the table with the id
JudgesWithId(judgeId) == { j \in judges : j.id = judgeId }

\* C15: a run of user U touches only U's data.  Every task, and every row the
\* call writes, is for a question row whose submission is U's and a judge row
\* that is U's with a model of AVAILABLE_MODELS, through an assignment of U
\* loaded by the call; hence an assignment of U naming another user's judge
\* yields no task, and no row of the call references another user's question
\* or judge.  A call without a session fails with "User not authenticated",
\* sends no query and no provider call and writes nothing.
C15_OnlyCallersData ==
  /\ \A a \in loaded : a.userId = session /\ a.queueId = queueId
  /\ \A i \in DOMAIN tasks :
       /\ OwnerOfQuestion(tasks[i].question.id) = {session}
       /\ tasks[i].question.queueId = queueId
       /\ tasks[i].judge.userId = session
       /\ tasks[i].judge.modelName \in AVAILABLE_MODELS
       /\ \E a \in loaded :
            a.judgeId = tasks[i].judge.id /\ a.questionId = tasks[i].question.questionId
  /\ \A row \in RowsOfCall :
       /\ OwnerOfQuestion(row.questionId) = {session}
       /\ JudgesWithId(row.judgeId) # {}
       /\ \A j \in JudgesWithId(row.judgeId) :
            j.userId = session /\ j.modelName \in AVAILABLE_MODELS
  /\ (session = NoSession /\ pc # "idle") =>
       /\ pc = "failed"
       /\ response.kind = "error"
       /\ response.message = "User not authenticated"
       /\ evaluations = {}
       /\ loaded = {}
       /\ tasks = <<>>
       /\ started = <<>>

\* C15 witness: u1's run has returned with a stored row although u1 also holds
\* an assignment naming u2's judge and the queue holds a question row of u2
C15_Witness ==
  /\ pc = "returned"
  /\ session = "u1"
  /\ \E a \in loaded : \E j \in judges : j.id = a.judgeId /\ j.userId = "u2"
  /\ \E x \in questions : x.queueId = queueId /\ OwnerOfQuestion(x.id) = {"u2"}
  /\ response.planned >= 1
  /\ RowsOfCall # {}

\* worker w is between claiming a task and recording its result
Busy(w) == workers[w].pc \in {"call", "insert", "fallback"}
BusyWorkers == { w \in DOMAIN workers : Busy(w) }
\* the tasks whose result slot is still a hole
Unfinished == { i \in DOMAIN results : results[i] = Hole }
\* a step in which worker w's awaited task() call returns: its slot is filled
TaskReturns(w) ==
  /\ w \in DOMAIN workers
  /\ Busy(w)
  /\ results[workers[w].current + 1] = Hole
  /\ results'[workers[w].current + 1] # Hole

\* C20: the pool is work-conserving.  A "call" is a worker's awaited task()
\* call, in flight from the claim of its index until its result is recorded.
\* While run is in its pool: exactly min(limit, number of tasks) workers were
\* started; a worker holds at most one task, and at most one provider call;
\* no worker has left while an index is unclaimed; the number of tasks in
\* flight is min(limit, tasks not yet finished).  And in every step in which a
\* task() call returns, the same worker claims the next index at once if one is
\* unclaimed (the cursor moving by one) and leaves otherwise.
C20_WorkConserving ==
  /\ [](pc = "running" =>
         /\ Len(workers) = (IF limit <= Len(tasks) THEN limit ELSE Len(tasks))
         /\ outstanding = Cardinality({ w \in DOMAIN workers : workers[w].pc = "call" })
         /\ outstanding <= Cardinality(BusyWorkers)
         /\ \A v, w \in BusyWorkers : workers[v].current = workers[w].current => v = w
         /\ (\E w \in DOMAIN workers : workers[w].pc = "done") => nextIndex >= Len(tasks)
         /\ Cardinality(BusyWorkers) =
              (IF limit <= Cardinality(Unfinished) THEN limit ELSE Cardinality(Unfinished)))
  /\ [][\A w \in 1..CONCURRENCY_LIMIT :
          TaskReturns(w) =>
            IF nextIndex < Len(tasks)
            THEN /\ workers'[w].pc = "call"
                 /\ workers'[w].current = nextIndex
                 /\ nextIndex' = nextIndex + 1
            ELSE /\ workers'[w].pc = "done"
                 /\ nextIndex' = nextIndex]_vars

\* C20 witness: with limit 2 and three tasks, the worker whose first task
\* returned holds the third task (its call already answered, its insert
\* pending) while the other worker still waits for its first call: two tasks
\* in flight, two unfinished, nothing unclaimed
C20_Witness ==
  /\ pc = "running"
  /\ limit = 2
  /\ Len(tasks) = 3
  /\ nextIndex = 3
  /\ Cardinality(Unfinished) = 2
  /\ Cardinality(BusyWorkers) = 2
  /\ \E w \in DOMAIN workers : workers[w].pc = "insert" /\ workers[w].current = 2
  /\ \E w \in DOMAIN workers : workers[w].pc = "call" /\ workers[w].current \in {0, 1}

\* the calls that ended with a result for the caller and queue of this call
EarlierRuns ==
  { k \in DOMAIN history :
      /\ history[k].session = session
      /\ history[k].queueId = queueId
      /\ history[k].kind = "result" }
NoFailureSoFar == \A k \in DOMAIN history : history[k].failed = 0

\* C16: run is append-only and not idempotent.  No step removes or changes a
\* row of table evaluations; and when the k-th run of a queue by its caller
\* has returned, the assignments and question rows being the same throughout
\* and no run having reported a failed pair, every (question row, judge) pair
\* of the task list has exactly k rows.
C16_AppendOnly ==
  /\ [][evaluations \subseteq evaluations']_vars
  /\ []((pc = "returned" /\ response.failed = 0 /\ NoFailureSoFar) =>
          \A i \in DOMAIN tasks :
            Cardinality(RowsOfPair(tasks[i])) = Cardinality(EarlierRuns) + 1)

\* C16 witness: the second run of u1 on qA has returned, both runs planned two
\* pairs and neither reported a failure: four rows, two for each pair
C16_Witness ==
  /\ pc = "returned"
  /\ session = "u1" /\ queueId = "qA"
  /\ Len(history) = 1
  /\ EarlierRuns = {1}
  /\ history[1].planned = 2
  /\ response.planned = 2
  /\ response.failed = 0
  /\ Cardinality(evaluations) = 4
  /\ \A i \in DOMAIN tasks : Cardinality(RowsOfPair(tasks[i])) = 2

\* the two calls in progress
Frames == {Call, other}
\* the row a stored insert of frame c's task i left in the table
StoredRowsOf(c, i) ==
  { row \in evaluations :
      /\ row.id[1] = c.callId
      /\ row.id[2] = i - 1
      /\ \E k \in DOMAIN c.insertLog[i] :
           c.insertLog[i][k].stored /\ c.insertLog[i][k].path = row.id[3] }
\* the rows without error for the pair of task t
VerdictRowsOfPair(t) == { row \in RowsOfPair(t) : row.error = Null }

\* C17: two runs in progress at once write without coordination and without
\* loss.  For each of the two calls: every insert it was told was stored has
\* its row in the table, whatever the other call did meanwhile; when it has
\* returned, completed + failed = planned = the length of its own task list,
\* and its evaluations list holds only rows of its own inserts, all of them in
\* the table.  And when both have returned with the same pair among their
\* completed ones, the pair has a verdict row of each: two rows.
C17_ConcurrentRuns ==
  /\ \A c \in Frames :
       /\ \A i \in DOMAIN c.insertLog :
            \A k \in DOMAIN c.insertLog[i] :
              c.insertLog[i][k].stored => StoredRowsOf(c, i) # {}
       /\ c.pc = "returned" =>
            /\ c.response.planned = Len(c.tasks)
            /\ c.response.completed + c.response.failed = c.response.planned
            /\ \A k \in DOMAIN c.response.evaluations :
                 /\ c.response.evaluations[k].id[1] = c.callId
                 /\ c.response.evaluations[k] \in evaluations
  /\ (pc = "returned" /\ other.pc = "returned" /\ callId # other.callId) =>
       \A k \in DOMAIN response.evaluations, m \in DOMAIN other.response.evaluations :
         (/\ response.evaluations[k].questionId = other.response.evaluations[m].questionId
          /\ response.evaluations[k].judgeId = other.response.evaluations[m].judgeId)
         => Cardinality({ row \in evaluations :
                            /\ row.questionId = response.evaluations[k].questionId
                            /\ row.judgeId = response.evaluations[k].judgeId
                            /\ row.error = Null }) = 2

\* C17 witness: u1's first call is still in its pool, its verdict row stored,
\* while u1's second call of the same queue, made later, has already returned
\* with the same pair completed: the pair has two verdict rows
C17_Witness ==
  /\ pc = "running"
  /\ callId = 1
  /\ session = "u1" /\ queueId = "qA"
  /\ Len(tasks) = 1
  /\ insertLog[1] = <<Stored("verdict")>>
  /\ other.pc = "returned"
  /\ other.callId = 2
  /\ other.session = "u1" /\ other.queueId = "qA"
  /\ other.response.completed = 1
  /\ Cardinality(VerdictRowsOfPair(tasks[1])) = 2

\* the judge of assignment a is present, the caller's and of an available
\* model, per the tables
AssignedJudgeCounts(a) ==
  \E j \in judges :
    j.id = a.judgeId /\ j.userId = session /\ j.modelName \in AVAILABLE_MODELS
\* the assignment rows of the caller in the queue that the table holds now
\* and the call did not load
AddedSinceLoad ==
  { a \in assignments : a.userId = session /\ a.queueId = queueId /\ a \notin loaded }

\* C14: every task of a run, and every row it writes, is for a question row q
\* and a judge j such that an assignment (queue of the call, template id of q,
\* j) of the caller was in the table when the call loaded its assignments,
\* whatever assign, unassign and clearQueue calls of any user are made while
\* the run is in progress.  What the call loaded is the caller's rows of the
\* queue at that moment; a loaded assignment is evaluated in full even when it
\* is removed meanwhile, and one added meanwhile gives no task.
C14_SnapshotOfAssignments ==
  /\ [][(pc = "fetchAssignments" /\ pc' # "fetchAssignments") =>
          loaded' = { a \in assignments : a.userId = session /\ a.queueId = queueId }]_vars
  /\ [](/\ \A i \in DOMAIN tasks :
             \E a \in loaded :
               /\ a.userId = session
               /\ a.queueId = queueId
               /\ a.questionId = tasks[i].question.questionId
               /\ a.judgeId = tasks[i].judge.id
        /\ \A row \in RowsOfCall :
             \E a \in loaded :
               /\ a.userId = session
               /\ a.queueId = queueId
               /\ a.judgeId = row.judgeId
               /\ \E x \in questions : x.id = row.questionId /\ x.questionId = a.questionId
        /\ pc = "returned" =>
             \A a \in loaded : \A x \in CallerQuestions :
               (AssignedJudgeCounts(a) /\ x.questionId = a.questionId) =>
                 \E i \in DOMAIN tasks :
                   /\ tasks[i].question = x
                   /\ tasks[i].judge.id = a.judgeId
                   /\ started[i] = 1)

\* C14 witness: while the provider call of the run's only task is outstanding,
\* the assignment the task came from has been removed and another assignment
\* of the caller for the same question row has been added: the two calls to
\* the assignments router were made after the run loaded its assignments
C14_Witness ==
  /\ pc = "running"
  /\ Len(tasks) = 1
  /\ workers[1].pc = "call"
  /\ ops = 2
  /\ \E a \in loaded :
       /\ a \notin assignments
       /\ a.judgeId = tasks[1].judge.id
  /\ \E b \in AddedSinceLoad :
       /\ AssignedJudgeCounts(b)
       /\ b.questionId = tasks[1].question.questionId
       /\ b.judgeId # tasks[1].judge.id

\* the rows of other users that hold the tuple the call in progress is at
HeldByOthers ==
  { a \in assignments :
      /\ a.userId # assignCall.userId
      /\ a.queueId = assignCall.queueId
      /\ a.questionId = Head(assignCall.pairs)[1]
      /\ a.judgeId = Head(assignCall.pairs)[2] }

\* C18 as claimed: uniqueness of an assignment tuple is per owner, so an
\* assignment held by one user never makes another user's assign or
\* assignJudgeToQueue call for that tuple fail: no call of a signed-in user
\* fails on a tuple that only other users hold.
C18_UniquePerOwner ==
  ~(/\ assignCall.pc = "failed"
    /\ assignCall.userId \in Users
    /\ HeldByOthers # {}
    /\ ExistingAssignment(assignCall.userId, assignCall.queueId,
                          Head(assignCall.pairs)) = {})

\* C18 witness of the divergence: u2's assign of its own judge j3 to t1 in qA
\* has thrown on the unique constraint, u1 holding that tuple and u2 not
C18_Witness ==
  /\ assignCall.pc = "failed"
  /\ assignCall.userId = "u2"
  /\ assignCall.message = UniqueViolation
  /\ Head(assignCall.pairs) = <<"t1", "j3">>
  /\ \E a \in HeldByOthers : a.userId = "u1"
  /\ \A a \in assignments : a.userId # "u2"

\* the rows of each table that belong to user A: a question row and an
\* evaluation row belong to the owner of their submission
OwnedJudges(A) == { j \in judges : j.userId = A }
OwnedSubmissions(A) == { x \in submissions : x.userId = A }
OwnedQuestions(A) ==
  { x \in questions : \E z \in OwnedSubmissions(A) : x.submissionId = z.id }
OwnedAssignments(A) == { a \in assignments : a.userId = A }
OwnedEvaluations(A) ==
  { e \in evaluations : \E x \in OwnedQuestions(A) : e.questionId = x.id }
Owned(A) ==
  <<OwnedJudges(A), OwnedSubmissions(A), OwnedQuestions(A), OwnedAssignments(A),
    OwnedEvaluations(A)>>

\* the message with which a call that names a row fails when it finds none
NotFoundOf(op) ==
  CASE op \in {"judges.get", "judges.update", "judges.toggleActive", "judges.delete"}
         -> "Judge not found"
    [] op \in {"submissions.get", "submissions.delete"} -> "Submission not found"
    [] op = "questions.get" -> "Question not found"
    [] op = "unassign" -> "Assignment not found"
    [] op = "evaluations.get" -> "Evaluation not found"
    [] OTHER -> Null

\* the last call named a row of a user other than its caller
NamedAnothersRow ==
  /\ lastReply.caller \in Users
  /\ lastReply.owner \in Users
  /\ lastReply.owner # lastReply.caller

\* the user on whose behalf the step acts: the caller of the call it begins
\* or of the call it answers
ActorOfStep ==
  IF toggleCall' # toggleCall /\ toggleCall'.pc = "update"
  THEN toggleCall'.userId ELSE lastReply'.caller

\* the result of a list, stats or getQueues call holds nothing of another
\* user: it is the result over the caller's own rows alone
OwnResultOnly ==
  LET u == lastReply.caller IN
  /\ lastReply.op = "judges.list" => lastReply.rows \subseteq OwnedJudges(u)
  /\ lastReply.op = "submissions.list" =>
       lastReply.rows = ListSubmissions(u, OwnedSubmissions(u), OwnedQuestions(u))
  /\ lastReply.op = "submissions.getQueues" =>
       lastReply.rows = QueueStats(u, OwnedSubmissions(u), OwnedQuestions(u))
  /\ lastReply.op = "evaluations.list" =>
       lastReply.rows = JoinedEvaluations(u, OwnedEvaluations(u), OwnedQuestions(u),
                                          OwnedSubmissions(u), OwnedJudges(u))
  /\ lastReply.op = "evaluations.stats" =>
       lastReply.rows = {Stats(u, OwnedEvaluations(u), OwnedQuestions(u),
                               OwnedSubmissions(u))}

RowsOfAssignCall ==
  { a \in assignments : a.id[1] = "new" /\ a.id[2] = assignCall.number }
AssignCount == Len(assignCall.inserted)

\* the current call of assign / assignJudgeToQueue returned and no call was
\* made since
JustReturned == assignCall.pc = "returned" /\ ops = assignCall.number

\* the current call of assign / assignJudgeToQueue has ended and repeats the
\* call made right before it: same procedure, caller and input, no call between
RepeatsEarlierCall ==
  /\ assignCall.pc \in {"returned", "failed"}
  /\ assignCall.before.pc \in {"returned", "failed"}
  /\ assignCall.userId \in Users
  /\ assignCall.op = assignCall.before.op
  /\ assignCall.userId = assignCall.before.userId
  /\ assignCall.queueId = assignCall.before.queueId
  /\ assignCall.input = assignCall.before.input
  /\ assignCall.number = assignCall.before.number + 1

\* user u holds a row with the tuple (q, pair)
Holds(u, q, pair) ==
  \E a \in OwnedAssignments(u) :
    a.queueId = q /\ a.questionId = pair[1] /\ a.judgeId = pair[2]

\* the pair the loop is at is held by the caller: the loop goes on to the
\* next pair without an insert
HeldPairSkipped ==
  (/\ assignCall.pc = "check"
   /\ assignCall' # assignCall
   /\ Holds(assignCall.userId, assignCall.queueId, Head(assignCall.pairs)))
  => /\ assignCall'.pc # "insert"
     /\ assignCall'.inserted = assignCall.inserted
     /\ assignments' = assignments

\* C21 as stated: for one user calling sequentially, a tuple the user holds
\* is skipped, the count returned is the number of rows inserted, a repeated
\* identical call inserts nothing and returns count 0, and the user never
\* holds two rows with the same tuple.
C21_AssignIdempotent ==
  /\ [][HeldPairSkipped]_vars
  /\ [](JustReturned =>
          /\ RowsOfAssignCall = Range(assignCall.inserted)
          /\ AssignCount = Cardinality(RowsOfAssignCall))
  /\ [](RepeatsEarlierCall =>
          /\ assignCall.pc = "returned"
          /\ RowsOfAssignCall = {}
          /\ AssignCount = 0)
  /\ [](\A u \in Users : UniqueAssignment(OwnedAssignments(u)))

\* C21 (amended): as C21, where the repeated identical call follows a call
\* that returned: it then returns count 0 and inserts nothing.  (A call that
\* threw, because a judge id names no judge or the tuple is held by another
\* user, throws again when repeated; it inserts nothing then either.)
C21_AssignIdempotentAfterSuccess ==
  /\ [][HeldPairSkipped]_vars
  /\ [](JustReturned =>
          /\ RowsOfAssignCall = Range(assignCall.inserted)
          /\ AssignCount = Cardinality(RowsOfAssignCall))
  /\ [](RepeatsEarlierCall =>
          /\ RowsOfAssignCall = {}
          /\ assignCall.before.pc = "returned" =>
               assignCall.pc = "returned" /\ AssignCount = 0)
  /\ [](\A u \in Users : UniqueAssignment(OwnedAssignments(u)))

\* u1 repeated assign(qA, t1, [j1, j1]) right after it returned having
\* inserted one row: the second call returned count 0
C21_Witness ==
  /\ RepeatsEarlierCall
  /\ assignCall.before.pc = "returned"
  /\ assignCall.pc = "returned"
  /\ assignCall.input = << <<"t1", "j1">>, <<"t1", "j1">> >>
  /\ AssignCount = 0
  /\ \E a \in OwnedAssignments("u1") : a.id = <<"new", 1, 2>>

\* the two frames hold calls of one user on one queue that have ended and
\* whose inputs share the pair; neither stopped at another pair, the judge
\* of the pair exists and no other user holds the tuple
BothAssigned(pair) ==
  /\ assignCall.userId \in Users
  /\ otherAssign.userId = assignCall.userId
  /\ otherAssign.queueId = assignCall.queueId
  /\ assignCall.pc \in {"returned", "failed"}
  /\ otherAssign.pc \in {"returned", "failed"}
  /\ pair \in Range(assignCall.input) \cap Range(otherAssign.input)
  /\ \A f \in {assignCall, otherAssign} : f.pc = "failed" => Head(f.pairs) = pair
  /\ JudgeOf(pair[2]) # NullJudge
  /\ \A a \in assignments :
       (a.queueId = assignCall.queueId /\ a.questionId = pair[1] /\ a.judgeId = pair[2])
         => a.userId = assignCall.userId

\* the caller's rows with the tuple
HeldRows(u, q, pair) ==
  { a \in OwnedAssignments(u) :
      a.queueId = q /\ a.questionId = pair[1] /\ a.judgeId = pair[2] }

\* C22: when two calls of assign / assignJudgeToQueue by one user for the
\* same (queue, question, judge) tuple have both ended, in whatever order
\* their selects and inserts resolved, exactly one row holds the tuple and
\* neither call failed.
C22_CheckThenInsertSafe ==
  \A pair \in {"t1", "t2"} \X {"j1", "j3"} :
    BothAssigned(pair) =>
      /\ assignCall.pc = "returned"
      /\ otherAssign.pc = "returned"
      /\ Cardinality(HeldRows(assignCall.userId, assignCall.queueId, pair)) = 1

\* both calls of u1 for (qA, t1, j1) passed their select before either
\* insert: one row was stored, and the call whose insert came second threw
\* the unique violation
C22_Witness ==
  /\ BothAssigned(<<"t1", "j1">>)
  /\ assignCall.userId = "u1"
  /\ assignCall.pc = "failed"
  /\ assignCall.message = UniqueViolation
  /\ Head(assignCall.pairs) = <<"t1", "j1">>
  /\ otherAssign.pc = "returned"
  /\ \E k \in DOMAIN otherAssign.inserted :
       /\ otherAssign.inserted[k].questionId = "t1"
       /\ otherAssign.inserted[k].judgeId = "j1"
  /\ Cardinality(HeldRows("u1", "qA", <<"t1", "j1">>)) = 1

\* the question row of task i is no longer in table questions
QuestionGone(i) == tasks[i].question \notin questions
\* run counts task i among the failed ones
CountedFailed(i) == ~(results[i].status = "fulfilled" /\ results[i].success)
\* the verdict insert of task i was stored
VerdictStored(i) == Stored("verdict") \in Range(insertLog[i])
\* no evaluation row references a question row that does not exist
NoDanglingEvaluation ==
  \A row \in evaluations : \E x \in questions : x.id = row.questionId
\* run returns counts that add up to the length of its task list
CountsAddUp ==
  /\ response.kind = "result"
  /\ response.planned = Len(tasks)
  /\ response.completed + response.failed = response.planned

\* C23 as stated: with submissions.delete removing a submission while a run
\* of its queue is in flight, the run still terminates and returns completed
\* + failed = planned, every task whose question row was cascade-deleted is
\* counted as failed, and no evaluation row ever references a question row
\* that does not exist.
C23_DeleteDuringRun ==
  /\ (pc = "running") ~> (pc = "returned")
  /\ [](pc = "returned" =>
          /\ CountsAddUp
          /\ \A i \in DOMAIN tasks : QuestionGone(i) => CountedFailed(i))
  /\ []NoDanglingEvaluation

\* C23 (amended): as C23, where the tasks counted as failed are those whose
\* question row was deleted before their verdict insert was stored: once the
\* question row is gone every insert sent for the task is refused; a task
\* whose verdict row was stored before the delete stays counted as completed
\* and is returned in the evaluations list, although the cascade removed its
\* row.
C23_DeleteDuringRunBeforeInsert ==
  /\ (pc = "running") ~> (pc = "returned")
  /\ [](pc = "returned" =>
          /\ CountsAddUp
          /\ \A i \in DOMAIN tasks :
               QuestionGone(i) => (CountedFailed(i) <=> ~VerdictStored(i)))
  /\ [][pc = "running" =>
          \A i \in DOMAIN tasks :
            (QuestionGone(i) /\ insertLog'[i] # insertLog[i]) =>
              /\ ~insertLog'[i][Len(insertLog'[i])].stored
              /\ evaluations' = evaluations]_vars
  /\ []NoDanglingEvaluation

\* the run returned after s1 was deleted under it: the task of (t1, s1) had
\* both its inserts refused and is counted as failed, the task of (t1, s2)
\* stored its verdict row
C23_Witness ==
  /\ pc = "returned"
  /\ \A x \in questions : x.submissionId # "s1"
  /\ \E i \in DOMAIN tasks :
       /\ tasks[i].question.id = <<"t1", "s1">>
       /\ insertLog[i] = <<Refused("verdict"), Refused("fallback")>>
       /\ CountedFailed(i)
  /\ \E i \in DOMAIN tasks :
       /\ tasks[i].question.id = <<"t1", "s2">>
       /\ VerdictStored(i)
  /\ response.failed = 1

\* the call of upload made last has ended, and no call was made since
UploadEnded ==
  /\ uploadCall.pc \in {"returned", "failed"}
  /\ uploadCall.userId \in Users
  /\ ops = uploadCall.number
\* the question rows stored for the submission with the id
QuestionRowsOf(submissionId) == { x \in questions : x.submissionId = submissionId }
\* user u owns the submission, stored with one question row per question listed
StoredWithQuestions(u, submission) ==
  /\ SubmissionValues(u, submission) \in submissions
  /\ Cardinality(QuestionRowsOf(submission.id)) = Len(submission.questions)
  /\ \A k \in DOMAIN submission.questions :
       \E x \in QuestionRowsOf(submission.id) :
         x.questionId = submission.questions[k] /\ x.queueId = submission.queueId

\* C24 as stated: upload skips a submission whose id the caller owns, without
\* a change to the tables; every other submission of the batch is stored
\* with its question rows; if an id was skipped the call fails with the
\* 'Duplicate submission IDs found' error (the other submissions staying
\* stored); and a call that returns has count equal to the batch size.
C24_UploadSkipsDuplicates ==
  /\ [][(/\ uploadCall'.duplicateIds # uploadCall.duplicateIds
          /\ uploadCall'.number = uploadCall.number)
          => UNCHANGED <<submissions, questions, evaluations>>]_vars
  /\ [](UploadEnded =>
          /\ \A k \in DOMAIN uploadCall.input :
               \/ uploadCall.input[k].id \in Range(uploadCall.duplicateIds)
               \/ StoredWithQuestions(uploadCall.userId, uploadCall.input[k])
          /\ uploadCall.duplicateIds # <<>> =>
               uploadCall.pc = "failed" /\ uploadCall.message = DuplicateSubmissions
          /\ uploadCall.pc = "returned" =>
               Len(uploadCall.insertedSubmissions) = Len(uploadCall.input))

\* u1 uploaded a file with the submission c, an id u2 had uploaded before:
\* the select found no submission of u1, the insert was rejected by the
\* primary key, and the call threw that error, c being neither skipped nor
\* stored for u1
C24_Witness ==
  /\ UploadEnded
  /\ uploadCall.userId = "u1"
  /\ uploadCall.pc = "failed"
  /\ uploadCall.message = SubmissionKeyViolation
  /\ Head(uploadCall.batch).id = "c"
  /\ uploadCall.duplicateIds = <<>>
  /\ OwnerOfSubmission("c") = "u2"

\* every question row belongs to exactly one stored submission and carries
\* its queue id
QuestionsBelong ==
  \A x \in questions :
    /\ Cardinality({ z \in submissions : z.id = x.submissionId }) = 1
    /\ \A z \in submissions : z.id = x.submissionId => z.queueId = x.queueId
\* the submissions of the input that the call of upload inserted
InsertedInputs ==
  { k \in DOMAIN uploadCall.input :
      /\ \A l \in 1..(k - 1) : uploadCall.input[l].id # uploadCall.input[k].id
      /\ \E row \in Range(uploadCall.insertedSubmissions) : row.id = uploadCall.input[k].id }
\* the step is a call of submissions.delete
DeleteStep ==
  /\ ops' = ops + 1
  /\ uploadCall' = uploadCall
  /\ lastReply'.op = "submissions.delete"
\* the step removes at most one submission, with its question rows and their
\* evaluation rows, and nothing else
RemovesOneSubmission ==
  LET gone == submissions \ submissions'
      goneQuestions == { x \in questions : \E z \in gone : x.submissionId = z.id }
  IN /\ Cardinality(gone) <= 1
     /\ submissions' = submissions \ gone
     /\ (lastReply'.kind = "ok") <=> (gone # {})
     /\ \A z \in gone : z.userId = lastReply'.caller
     /\ questions' = questions \ goneQuestions
     /\ evaluations' = { e \in evaluations : \A x \in goneQuestions : e.questionId # x.id }
     /\ UNCHANGED <<judges, assignments>>

\* C25 as stated: after any sequence of uploads and deletes every question
\* row belongs to exactly one stored submission and carries its queue id; a
\* submission that upload stored has exactly one question row per question
\* listed in it, also when the call threw; and delete removes a submission
\* with all its question rows and their evaluation rows, and nothing else.
C25_QuestionsFollowSubmissions ==
  /\ []QuestionsBelong
  /\ [](UploadEnded =>
          \A k \in InsertedInputs :
            SubmissionValues(uploadCall.userId, uploadCall.input[k]) \in submissions
              => StoredWithQuestions(uploadCall.userId, uploadCall.input[k]))
  /\ [][DeleteStep => RemovesOneSubmission]_vars

\* the upload of u1 threw on the insert of the question rows of submission
\* c: the row of c is stored, none of its questions is
C25_Witness ==
  /\ UploadEnded
  /\ uploadCall.pc = "failed"
  /\ uploadCall.message = QuestionKeyViolation
  /\ \E z \in submissions : z.id = "c" /\ z.userId = uploadCall.userId
  /\ Head(uploadCall.batch).id = "c"
  /\ Head(uploadCall.batch).questions # <<>>
  /\ QuestionRowsOf("c") = {}

\* the (question id, submission id) pairs of an uploaded file
InputPairs(input) ==
  UNION { { <<t, input[k].id>> : t \in Range(input[k].questions) } : k \in DOMAIN input }
\* the file lists no submission id twice and no question id twice in a submission
WellFormed(input) ==
  /\ \A k, l \in DOMAIN input : k # l => input[k].id # input[l].id
  /\ \A k \in DOMAIN input :
       \A m, n \in DOMAIN input[k].questions :
         m # n => input[k].questions[m] # input[k].questions[n]

\* C30 as stated: the composite question row id is injective: distinct
\* (question id, submission id) pairs of an uploaded file have distinct row
\* ids, so that the upload of a well-formed file never fails on the primary
\* key of table questions.
C30_CompositeIdInjective ==
  /\ \A p, r \in InputPairs(uploadCall.input) :
       CompositeId(p[1], p[2]) = CompositeId(r[1], r[2]) => p = r
  /\ WellFormed(uploadCall.input) =>
       ~(uploadCall.pc = "failed" /\ uploadCall.message = QuestionKeyViolation)

\* the file with question a of submission b_c and question a_b of submission
\* c was uploaded: both rows get the id a_b_c, the second insert was rejected
C30_Witness ==
  /\ uploadCall.pc = "failed"
  /\ uploadCall.message = QuestionKeyViolation
  /\ WellFormed(uploadCall.input)
  /\ CompositeId("a", "b_c") = CompositeId("a_b", "c")
  /\ {<<"a", "b_c">>, <<"a_b", "c">>} \subseteq InputPairs(uploadCall.input)
  /\ \E x \in questions : x.id = CompositeId("a_b", "c") /\ x.submissionId = "b_c"

\* how many completed calls of toggleActive there were on the judge
Occurrences(seq, id) == Cardinality({ k \in DOMAIN seq : seq[k] = id })
CompletedToggles(id) ==
  Occurrences(toggleCall.completed, id) + Occurrences(otherToggle.completed, id)
\* the flag of the judge at the start, and now
OriginalFlag(id) == (CHOOSE j \in JudgeRows : j.id = id).isActive
CurrentFlag(id) == (CHOOSE j \in judges : j.id = id).isActive

\* C26 as stated: each call of toggleActive flips the flag once: after n
\* completed calls on a judge, however their selects and updates
\* interleaved, isActive is the original value if n is even and its negation
\* if n is odd.
C26_ToggleFlipsOnce ==
  \A id \in {"j1", "j2"} :
    CurrentFlag(id) =
      IF CompletedToggles(id) % 2 = 0 THEN OriginalFlag(id) ELSE ~OriginalFlag(id)

\* two calls on j1 both selected the judge (isActive = true) before either
\* updated it: both completed, and the flag is false, not back to true
C26_Witness ==
  /\ CompletedToggles("j1") = 2
  /\ toggleCall.pc = "idle"
  /\ otherToggle.pc = "idle"
  /\ OriginalFlag("j1")
  /\ ~CurrentFlag("j1")

\* the last call was a judges.delete that succeeded, on the judge with the id
Deleted(reply, id) ==
  /\ reply.op = "judges.delete"
  /\ reply.kind = "ok"
  /\ reply.rows = {[deletedId |-> id]}
\* the step is a call of judges.delete that succeeded on the judge
DeleteJudgeStep(id) ==
  /\ ops' = ops + 1
  /\ toggleCall' = toggleCall
  /\ Deleted(lastReply', id)
\* the ids and owners of the judge rows
JudgeKeys == { <<j.id, j.userId>> : j \in judges }

\* C27: judges.delete is a soft delete.  A successful call sets isActive to
\* false on the judge and changes no other field, no other judge and no row
\* of another table, its assignments and evaluation rows included; on a judge
\* that is inactive already it succeeds and changes nothing.  Right after it
\* judges.list with activeOnly omits the judge, judges.list without it and
\* judges.get return it.  No call to any procedure removes a judge row.
C27_SoftDelete ==
  /\ [][\A id \in JudgeIds :
          DeleteJudgeStep(id) =>
            /\ judges' = { IF j.id = id THEN [j EXCEPT !.isActive = FALSE] ELSE j :
                             j \in judges }
            /\ UNCHANGED <<submissions, questions, assignments, evaluations>>
            /\ (\A j \in judges : j.id = id => ~j.isActive) => judges' = judges]_vars
  /\ [](\A id \in JudgeIds :
          Deleted(lastReply, id) =>
            LET u == lastReply.caller IN
            /\ \A j \in ListJudges(u, TRUE, judges) : j.id # id
            /\ \E j \in ListJudges(u, FALSE, judges) : j.id = id /\ ~j.isActive
            /\ \E j \in OwnJudges(u, id) : ~j.isActive)
  /\ [][JudgeKeys' = JudgeKeys]_vars

\* u1 deleted its judge j1: the row is still there, inactive, and so are the
\* assignment of j1 and the evaluation row j1 produced
C27_Witness ==
  /\ Deleted(lastReply, "j1")
  /\ lastReply.caller = "u1"
  /\ \E j \in judges : j.id = "j1" /\ ~j.isActive
  /\ \E a \in assignments : a.judgeId = "j1"
  /\ \E e \in evaluations : e.judgeId = "j1"

(***************************************************************************)
(* C28: the preview of the queue page against the run's planned count.      *)
(***************************************************************************)
\* the run has returned its counts; no table the preview reads has changed
\* since the call began
RunReturnedResult == pc = "returned" /\ response.kind = "result"

\* C28: for the same unchanged assignments, judges and question rows, within
\* the listing limit, the number the page previews for the caller's queue
\* equals the planned count that run returns.
C28_PreviewEqualsPlanned ==
  RunReturnedResult => response.planned = PlannedEvaluations(session, queueId)

\* C28 witness: a run has returned a positive planned count for a queue whose
\* preview, computed from the same rows, shows a larger number
C28_Witness ==
  /\ RunReturnedResult
  /\ response.planned > 0
  /\ PlannedEvaluations(session, queueId) > response.planned

(***************************************************************************)
(* C29: the state machine of the queue page.                               *)
(***************************************************************************)
\* the queue of the page has an evaluation row the page's user can list
QueueHasEvaluation ==
  page.open /\ ListedEvaluations(page.userId, page.queueId) # {}

\* the status the page must show for what it has fetched of the queue
StatusByRule ==
  IF page.data["evaluations"] # NoData /\ page.data["evaluations"] >= 1 THEN "done"
  ELSE IF page.mutation = "pending" THEN "processing"
  ELSE "prep"

\* this step starts a run / settles the run mutation
RunStarts == page.mutation # "pending" /\ page'.mutation = "pending"
RunSettles == page.mutation = "pending" /\ page'.mutation \in {"success", "error"}

StatusAsRuled == page.open => QueueStatus = StatusByRule
StartedFromPrep ==
  RunStarts => /\ QueueStatus = "prep"
               /\ page.data["assignments"] # NoData /\ page.data["assignments"] >= 1
               /\ page.mutation # "pending"
ResetWhenSettled == RunSettles => ~page'.isRunning
NoRunOnceEvaluated == QueueHasEvaluation => ~RunOffered

\* C29: the page shows 'done' whenever it has an evaluation of the queue,
\* 'processing' exactly when it has none and a run is under way, otherwise
\* 'prep'; a run is started only from 'prep', with at least one assignment and
\* no run mutation pending; isRunning is false once the run mutation has
\* settled, on success and on error; and once the queue has an evaluation row
\* the page never offers Run.
C29_QueuePageStateMachine ==
  [][/\ StatusAsRuled'
     /\ StartedFromPrep
     /\ ResetWhenSettled
     /\ NoRunOnceEvaluated']_vars

\* C29 witness: the run started from the page has stored an evaluation row,
\* its mutation has settled with success, and the page is back in 'prep'
\* offering Run while the evaluations it has cached are those fetched before
\* the run
C29_Witness ==
  /\ page.mutation = "success"
  /\ QueueHasEvaluation
  /\ "evaluations" \in page.fetching
  /\ QueueStatus = "prep"
  /\ RunOffered

====
